---- MODULE Spec2Model ----
(***************************************************************************)
(* Model of caliscope's stereo-triangulation table assembly                *)
(* (calibration/capture_volume/helper_functions/                           *)
(*  get_stereotriangulated_table.py): the per-bundle Assembler             *)
(* get_stereotriangulated_table_original and the batched Assembler         *)
(* get_stereotriangulated_table, run on one detection table and one        *)
(* camera array.                                                           *)
(*                                                                         *)
(* A DataFrame is a sequence of rows (records); a column is read off the   *)
(* rows in row order.  A pixel location img_loc is a symbolic value, one   *)
(* per detection, so that a coordinate taken from the wrong detection is   *)
(* visible in the result.  frame_time, frame_index and obj_loc are carried *)
(* by the packets but read by no step of the assembly and are left out.    *)
(***************************************************************************)
EXTENDS Integers, Sequences, FiniteSets, TLC

\* ------------------------------------------------------------------ state
VARIABLES
    point_data_csv,            \* the file at point_data_path
    camera_array,              \* the pairs whose geometry the array supplies
    stereotriangulated_csv,    \* stereotriangulated_points.csv, None if absent
    returned,                  \* per mode, what its last finished run gave
    pc,                        \* where the running function stands
    point_data,                \* locals of the running function
    sync_indices,
    i,
    sync_packet,
    synched_stereo_points,
    stereotriangulated_table,
    point_id_multiplier,
    calls,                     \* the builder and triangulator calls of the run
    progress,                  \* the progress messages the run has logged
    stream,                    \* one LiveStream and its camera
    play_workers,              \* where each _play_worker thread stands
    resolution_change,         \* where the caller of change_resolution stands
    published,                 \* the packets the stream has published
    observed,                  \* the packets get_latest_frame has returned
    config,                    \* the Configurator: the ports it holds a camera for
    attached_ports,            \* the ports a camera is plugged into
    session,                   \* the LiveSession, its streams and frame emitters
    recording_queues,          \* the Queue made by each start_recording
    recording_threads,         \* where each recording_worker thread stands
    signals,                   \* how often each recording signal was emitted
    recording_feed,            \* the packets published to the recording queue
    widget,                    \* the RecordSingleCameraWidget and its timers
    recorders,                 \* the RecordingThread objects the widget made
    event_queue                \* the signals queued for the GUI thread

assembler_vars ==
    <<point_data_csv, camera_array, stereotriangulated_csv, returned, pc,
      point_data, sync_indices, i, sync_packet, synched_stereo_points,
      stereotriangulated_table, point_id_multiplier, calls, progress>>

stream_vars == <<stream, play_workers, resolution_change, published, observed>>

session_vars ==
    <<config, attached_ports, session, recording_queues, recording_threads,
      signals, recording_feed>>

widget_vars == <<widget, recorders, event_queue>>

live_vars == <<stream_vars, session_vars, widget_vars>>

vars == <<assembler_vars, live_vars>>

inputs == <<point_data_csv, camera_array>>

\* ---------------------------------------------------------------- bounds
\* The largest number of rows of an input detection table.
MaxRows == 4

\* camera_array.port_index.keys(), in order
Ports == <<0, 1, 2>>
PortSet == {Ports[k] : k \in 1..Len(Ports)}
\* values of the sync_index and point_id columns of the input table
SyncIndices == 0..1
PointIds == -1..1

\* ------------------------------------------------------- python / pandas
None == [none |-> TRUE]

\* pandas' results of an integer floor division or remainder by zero
PosInf == 9999
NegInf == -9999
NaN == -7777

Range(s) == {s[k] : k \in 1..Len(s)}

\* df[name].to_numpy()
Column(df, name) == [k \in 1..Len(df) |-> df[k][name]]

RECURSIVE SortSet(_)
\* the elements of a set of integers, ascending
SortSet(S) ==
    IF S = {} THEN <<>>
    ELSE LET m == CHOOSE x \in S : \A y \in S : x <= y
         IN <<m>> \o SortSet(S \ {m})

\* NpUnique without the removal of repeats and the sort
NpUniqueKeepingRepeats(values) == [k \in 1..Len(values) |-> values[k]]

\* np.unique
NpUnique(values) == SortSet(Range(values))

\* Series.max(); NaN on an empty Series
SeriesMax(values) ==
    IF values = <<>> THEN NaN
    ELSE CHOOSE x \in Range(values) : \A y \in Range(values) : y <= x

\* a // b on Series
PyFloorDiv(a, b) ==
    IF b = 0 THEN (IF a > 0 THEN PosInf ELSE IF a < 0 THEN NegInf ELSE NaN)
    ELSE a \div b

\* a % b on Series
PyMod(a, b) == IF b = 0 THEN NaN ELSE a % b


\* ------------------------------------------------------ the input table
\* the (sync_index, port, point_id) of one detection; point_id is unique
\* within a port and sync_index
DetectionKeys == [sync_index : SyncIndices, port : PortSet, point_id : PointIds]

\* the pixel at which a camera saw a point at a synchronized instant
ImgLocOf(key) == <<key.port, key.sync_index, key.point_id>>

\* one row of the detection table
InputRow(key) ==
    [sync_index |-> key.sync_index, port |-> key.port,
     point_id |-> key.point_id, img_loc |-> ImgLocOf(key)]

\* the place of a detection in the table: the rows of a later sync index
\* come first, and an odd port lists its identifiers descending where an even
\* port lists them ascending, so that the sync indices are not sorted and
\* two cameras hold the same identifiers at different positions
KeyRank(key) ==
    ((Cardinality(SyncIndices) - key.sync_index) * Len(Ports) + key.port)
        * (2 * Cardinality(PointIds))
        + Cardinality(PointIds)
        + (IF key.port % 2 = 1 THEN 0 - key.point_id ELSE key.point_id)

RECURSIVE RowsInOrder(_)
\* the rows of a set of detections, by rank
RowsInOrder(keys) ==
    IF keys = {} THEN <<>>
    ELSE LET k == CHOOSE x \in keys : \A y \in keys : KeyRank(x) <= KeyRank(y)
         IN <<InputRow(k)>> \o RowsInOrder(keys \ {k})

RECURSIVE SubsetsUpTo(_, _)
\* the subsets of S with at most n elements
SubsetsUpTo(S, n) ==
    IF n = 0 THEN {{}}
    ELSE LET smaller == SubsetsUpTo(S, n - 1)
         IN smaller \cup {T \cup {x} : T \in smaller, x \in S}

\* the detection tables the runs are given
InputTables ==
    {RowsInOrder(keys) : keys \in SubsetsUpTo(DetectionKeys, MaxRows)}

RECURSIVE PairsFrom(_)
\* itertools.combinations(ports, 2), kept when i < j
PairsFrom(ports) ==
    IF Len(ports) < 2 THEN <<>>
    ELSE LET rest == Tail(ports)
             mine == [k \in 1..Len(rest) |-> <<Head(ports), rest[k]>>]
             Smaller(p) == p[1] < p[2]
         IN SelectSeq(mine, Smaller) \o PairsFrom(rest)

\* StereoPointsBuilder.pairs, ArrayStereoTriangulator.pairs
Pairs == PairsFrom(Ports)
PairSet == Range(Pairs)

\* the camera arrays the runs are given: the pairs with a usable stereo
\* geometric relationship
Geometries == {PairSet, PairSet \ {Pairs[1]}}


\* ------------------------------------------------------- frame packets
\* FramePacketOf without the test for an empty port_data
FramePacketOfUnchecked(port, port_data) ==
    [port |-> port,
     points |-> [point_id |-> Column(port_data, "point_id"),
                 img_loc |-> Column(port_data, "img_loc")]]

\* PointPacket(point_id, img_loc, obj_loc) in a FramePacket, or None for a
\* port without rows
FramePacketOf(port, port_data) ==
    IF port_data # <<>>
    THEN [port |-> port,
          points |-> [point_id |-> Column(port_data, "point_id"),
                      img_loc |-> Column(port_data, "img_loc")]]
    ELSE None

\* point_data[point_data[column] == value]
Masked(df, column, value) ==
    LET Keep(row) == row[column] = value
    IN SelectSeq(df, Keep)

\* SyncGroup without the mask
SyncGroupUnmasked(df, sync_index) == df

\* sync_groups[sync_index]
SyncGroup(df, sync_index) == Masked(df, "sync_index", sync_index)

\* OriginalFramePackets without the port mask
OriginalFramePacketsUnmasked(port_points) ==
    [port \in PortSet |-> FramePacketOf(port, port_points)]

\* frame_packets of one sync index, per-bundle mode
OriginalFramePackets(port_points) ==
    [port \in PortSet |-> FramePacketOf(port, Masked(port_points, "port", port))]

\* frame_packets of the virtual bundle, batched mode
BatchedFramePackets(df) ==
    [port \in PortSet |-> FramePacketOf(port, Masked(df, "port", port))]

SyncPacket(sync_index, frame_packets) ==
    [sync_index |-> sync_index, frame_packets |-> frame_packets]

\* ------------------------------------------- Pairwise Correspondence Builder
\* the position of the first occurrence of id in ids
FirstIndex(ids, id) == CHOOSE k \in 1..Len(ids) :
    ids[k] = id /\ \A j \in 1..(k - 1) : ids[j] # id

\* GetStereoPointsPacket with each side's pixels taken by array position
GetStereoPointsPacketByPosition(bundle, pair) ==
    LET frame_A == bundle.frame_packets[pair[1]]
        frame_B == bundle.frame_packets[pair[2]]
    IN IF frame_A = None \/ frame_B = None THEN None
       ELSE LET ids_A == frame_A.points.point_id
                ids_B == frame_B.points.point_id
                common_ids == SortSet(Range(ids_A) \cap Range(ids_B))
            IN IF common_ids = <<>> THEN None
               ELSE [sync_index |-> bundle.sync_index,
                     pair |-> pair,
                     common_ids |-> common_ids,
                     img_loc_A |-> [k \in 1..Len(common_ids) |->
                         frame_A.points.img_loc[k]],
                     img_loc_B |-> [k \in 1..Len(common_ids) |->
                         frame_B.points.img_loc[k]],
                     xyz |-> None]

\* the Camera Pair Correspondence of one pair: the identifiers both Point
\* Sets hold, ascending, with each side's pixel gathered by identifier; None
\* when a side is absent or nothing is shared.  A Point Set is assumed
\* identifier-unique; of a repeated identifier the first occurrence is taken.
GetStereoPointsPacket(bundle, pair) ==
    LET frame_A == bundle.frame_packets[pair[1]]
        frame_B == bundle.frame_packets[pair[2]]
    IN IF frame_A = None \/ frame_B = None THEN None
       ELSE LET ids_A == frame_A.points.point_id
                ids_B == frame_B.points.point_id
                common_ids == SortSet(Range(ids_A) \cap Range(ids_B))
            IN IF common_ids = <<>> THEN None
               ELSE [sync_index |-> bundle.sync_index,
                     pair |-> pair,
                     common_ids |-> common_ids,
                     img_loc_A |-> [k \in 1..Len(common_ids) |->
                         frame_A.points.img_loc[FirstIndex(ids_A, common_ids[k])]],
                     img_loc_B |-> [k \in 1..Len(common_ids) |->
                         frame_B.points.img_loc[FirstIndex(ids_B, common_ids[k])]],
                     xyz |-> None]

\* StereoPointsBuilder.get_synched_paired_points: an entry for every pair
GetSynchedPairedPoints(bundle) ==
    [sync_index |-> bundle.sync_index,
     stereo_points_packets |->
         [pair \in PairSet |-> GetStereoPointsPacket(bundle, pair)]]

\* ------------------------------------------------------------ Triangulator
\* the 3D point of one matched identifier: a function of the pair and of the
\* two matched pixels, and of nothing else
TriangulatePoint(pair, loc_A, loc_B) == <<pair, loc_A, loc_B>>

\* Add3DPoints without the query of the pair's geometry
Add3DPointsUnconditionally(packet, geometry_known) ==
    [packet EXCEPT !.xyz = [points |->
        [k \in 1..Len(packet.common_ids) |->
            TriangulatePoint(packet.pair, packet.img_loc_A[k], packet.img_loc_B[k])]]]

\* one pair's correspondence annotated with its 3D points; a pair without a
\* geometric relationship is left without them
Add3DPoints(packet, geometry_known) ==
    IF packet.pair \in geometry_known
    THEN [packet EXCEPT !.xyz = [points |->
             [k \in 1..Len(packet.common_ids) |->
                 TriangulatePoint(packet.pair, packet.img_loc_A[k], packet.img_loc_B[k])]]]
    ELSE packet


\* ArrayStereoTriangulator.triangulate_synched_points: every non-null pair
TriangulateSynchedPoints(synched, geometry_known) ==
    [synched EXCEPT !.stereo_points_packets =
        [pair \in PairSet |->
            IF synched.stereo_points_packets[pair] = None THEN None
            ELSE Add3DPoints(synched.stereo_points_packets[pair], geometry_known)]]

\* the columns of StereoPointsPacket.to_table
OutputColumns == {"sync_index", "point_id", "pair", "xyz"}

\* StereoPointsPacket.to_table: a row per triangulated identifier
ToTable(packet) ==
    IF packet.xyz = None THEN [rows |-> <<>>]
    ELSE [rows |-> [k \in 1..Len(packet.common_ids) |->
                      [sync_index |-> packet.sync_index,
                       point_id |-> packet.common_ids[k],
                       pair |-> packet.pair,
                       xyz |-> packet.xyz.points[k]]]]

\* --------------------------------------------------------- Table Assembler
\* InitialTable taken from the rows an earlier run left in the output file
InitialTableFromFile ==
    IF stereotriangulated_csv = None \/ stereotriangulated_csv.rows = <<>>
    THEN None
    ELSE [rows |-> stereotriangulated_csv.rows]

\* stereotriangulated_table before the first pair is collected
InitialTable == None

\* CollectPair with the new rows put before the collected ones
CollectPairPrepending(table, triangulated_pair) ==
    IF triangulated_pair # None
    THEN IF table = None
         THEN ToTable(triangulated_pair)
         ELSE [rows |-> ToTable(triangulated_pair).rows \o table.rows]
    ELSE table

\* one pass of "for pair in synched_stereo_points.pairs" for one pair
CollectPair(table, triangulated_pair) ==
    IF triangulated_pair # None
    THEN IF table = None
         THEN ToTable(triangulated_pair)
         ELSE [rows |-> table.rows \o ToTable(triangulated_pair).rows]
    ELSE table

RECURSIVE CollectPairs(_, _, _)
\* the loop over synched_stereo_points.pairs, from the k-th pair on
CollectPairs(table, synched, k) ==
    IF k > Len(Pairs) THEN table
    ELSE CollectPairs(
             CollectPair(table, synched.stereo_points_packets[Pairs[k]]),
             synched, k + 1)

\* pd.DataFrame(stereotriangulated_table); pd.DataFrame(None) has no column
DataFrame(table) ==
    IF table = None THEN [columns |-> {}, rows |-> <<>>]
    ELSE [columns |-> OutputColumns, rows |-> table.rows]

\* EncodePointId with max_point_id for max_point_id + 1
EncodePointIdByMax(sync_index, point_id, multiplier) ==
    sync_index * (multiplier - 1) + point_id

\* the combined identifier of batched mode
EncodePointId(sync_index, point_id, multiplier) ==
    sync_index * multiplier + point_id

\* max_point_id + 1
PointIdMultiplier(df) ==
    LET max_point_id == SeriesMax(Column(df, "point_id"))
    IN IF max_point_id = NaN THEN NaN ELSE max_point_id + 1

\* point_data after the original columns are stored, the identifiers are
\* combined and every sync_index is set to 0
EncodedPointData(df) ==
    [k \in 1..Len(df) |->
        [sync_index |-> 0,
         port |-> df[k].port,
         point_id |-> EncodePointId(df[k].sync_index, df[k].point_id,
                                    PointIdMultiplier(df)),
         img_loc |-> df[k].img_loc,
         original_sync_index |-> df[k].sync_index,
         original_point_id |-> df[k].point_id]]

\* the combined identifier decomposed by integer division and remainder
DecodeSyncIndex(point_id, multiplier) ==
    PyFloorDiv(point_id, multiplier)

DecodePointId(point_id, multiplier) ==
    PyMod(point_id, multiplier)

\* the output rows with sync_index and point_id restored
DecodedTable(df, multiplier) ==
    [df EXCEPT !.rows =
        [k \in 1..Len(df.rows) |->
            [df.rows[k] EXCEPT
                !.sync_index = DecodeSyncIndex(df.rows[k].point_id, multiplier),
                !.point_id = DecodePointId(df.rows[k].point_id, multiplier)]]]



\* paired_point_builder.get_synched_paired_points(sync_packet), then
\* array_triangulator.triangulate_synched_points(synched_stereo_points)
BuilderThenTriangulator(bundle) ==
    <<[callee |-> "get_synched_paired_points", sync_index |-> bundle.sync_index],
      [callee |-> "triangulate_synched_points", sync_index |-> bundle.sync_index]>>

\* no LiveSession exists
NoSession ==
    /\ config = {}
    /\ attached_ports = {}
    /\ session = None
    /\ recording_queues = <<>>
    /\ recording_threads = <<>>
    /\ signals = None
    /\ recording_feed = <<>>

\* no LiveStream is followed on its own
NoStream ==
    /\ stream = None
    /\ play_workers = <<>>
    /\ resolution_change = None
    /\ published = <<>>
    /\ observed = {}

\* no RecordSingleCameraWidget exists
NoWidget ==
    /\ widget = None
    /\ recorders = <<>>
    /\ event_queue = <<>>

\* no stream, no session and no widget exist while the assemblers run
NothingLive == NoStream /\ NoSession /\ NoWidget

Modes == {"original", "batched"}

Raised(error) == [raised |-> error]

\* the locals of a function that is not running
NoLocals ==
    /\ point_data' = <<>>
    /\ sync_indices' = <<>>
    /\ i' = 0
    /\ sync_packet' = None
    /\ synched_stereo_points' = None
    /\ stereotriangulated_table' = None
    /\ point_id_multiplier' = 0
    /\ calls' = <<>>

Init ==
    /\ point_data_csv \in InputTables
    /\ camera_array \in Geometries
    /\ stereotriangulated_csv = None
    /\ returned = [mode \in Modes |-> None]
    /\ pc = "idle"
    /\ point_data = <<>>
    /\ sync_indices = <<>>
    /\ i = 0
    /\ sync_packet = None
    /\ synched_stereo_points = None
    /\ stereotriangulated_table = None
    /\ point_id_multiplier = 0
    /\ calls = <<>>
    /\ progress = <<>>
    /\ NothingLive

\* ------------------------------- get_stereotriangulated_table_original
\* progress is reported every ProgressCadence sync indices
ProgressCadence == 25

\* ReportsProgress with the passes counted from one
ReportsProgressOneBased(position) == (position + 1) % ProgressCadence = 0

\* if i % 25 == 0
ReportsProgress(position) == position % ProgressCadence = 0

\* the message logged: the position and total_sync_indices
ProgressMessage(position, total_sync_indices) ==
    [i |-> position, total_sync_indices |-> total_sync_indices]

\* read_csv, np.unique, the builder and the triangulator set up
OriginalStart ==
    /\ pc = "idle"
    /\ pc' = "original_loop"
    /\ point_data' = point_data_csv
    /\ sync_indices' = NpUnique(Column(point_data_csv, "sync_index"))
    /\ i' = 0
    /\ stereotriangulated_table' = InitialTable
    /\ sync_packet' = None
    /\ synched_stereo_points' = None
    /\ point_id_multiplier' = 0
    /\ calls' = <<>>
    /\ progress' = <<>>
    /\ UNCHANGED <<inputs, stereotriangulated_csv, returned, live_vars>>

\* one pass of "for i, sync_index in enumerate(sync_indices)"
OriginalBundle ==
    /\ pc = "original_loop"
    /\ i < Len(sync_indices)
    /\ LET sync_index == sync_indices[i + 1]
           port_points == SyncGroup(point_data, sync_index)
           packet == SyncPacket(sync_index, OriginalFramePackets(port_points))
           synched == TriangulateSynchedPoints(GetSynchedPairedPoints(packet),
                                               camera_array)
       IN /\ sync_packet' = packet
          /\ synched_stereo_points' = synched
          /\ calls' = calls \o BuilderThenTriangulator(packet)
          /\ stereotriangulated_table' =
                 CollectPairs(stereotriangulated_table, synched, 1)
    /\ progress' = IF ReportsProgress(i)
                   THEN Append(progress, ProgressMessage(i, Len(sync_indices)))
                   ELSE progress
    /\ i' = i + 1
    /\ UNCHANGED <<inputs, stereotriangulated_csv, returned, pc, point_data,
                   sync_indices, point_id_multiplier, live_vars>>

\* OriginalSave taken before the loop has passed every sync index
OriginalSaveEarly ==
    /\ pc = "original_loop"
    /\ i <= Len(sync_indices)
    /\ stereotriangulated_csv' = DataFrame(stereotriangulated_table)
    /\ returned' = [returned EXCEPT !["original"] = DataFrame(stereotriangulated_table)]
    /\ pc' = "idle"
    /\ NoLocals
    /\ UNCHANGED <<inputs, progress, live_vars>>

\* the table made a DataFrame, written and returned
OriginalSave ==
    /\ pc = "original_loop"
    /\ i = Len(sync_indices)
    /\ stereotriangulated_csv' = DataFrame(stereotriangulated_table)
    /\ returned' = [returned EXCEPT !["original"] = DataFrame(stereotriangulated_table)]
    /\ pc' = "idle"
    /\ NoLocals
    /\ UNCHANGED <<inputs, progress, live_vars>>

\* ---------------------------------------- get_stereotriangulated_table
\* read_csv, the original columns stored, the identifiers combined
BatchedEncode ==
    /\ pc = "idle"
    /\ pc' = "batched_encoded"
    /\ point_data' = EncodedPointData(point_data_csv)
    /\ point_id_multiplier' = PointIdMultiplier(point_data_csv)
    /\ sync_indices' = <<>>
    /\ i' = 0
    /\ sync_packet' = None
    /\ synched_stereo_points' = None
    /\ stereotriangulated_table' = None
    /\ calls' = <<>>
    /\ UNCHANGED <<inputs, stereotriangulated_csv, returned, progress, live_vars>>

\* the virtual bundle built, matched and triangulated, the pairs collected
BatchedTriangulate ==
    /\ pc = "batched_encoded"
    /\ pc' = "batched_collected"
    /\ LET packet == SyncPacket(0, BatchedFramePackets(point_data))
           synched == TriangulateSynchedPoints(GetSynchedPairedPoints(packet),
                                               camera_array)
       IN /\ sync_packet' = packet
          /\ synched_stereo_points' = synched
          /\ calls' = calls \o BuilderThenTriangulator(packet)
          /\ stereotriangulated_table' = CollectPairs(InitialTable, synched, 1)
    /\ UNCHANGED <<inputs, stereotriangulated_csv, returned, point_data,
                   sync_indices, i, point_id_multiplier, progress, live_vars>>

\* the table made a DataFrame and decoded, then written and returned; the
\* lookup of the point_id column raises KeyError on a DataFrame without it
BatchedSave ==
    /\ pc = "batched_collected"
    /\ LET df == DataFrame(stereotriangulated_table)
       IN IF "point_id" \in df.columns
          THEN /\ stereotriangulated_csv' = DecodedTable(df, point_id_multiplier)
               /\ returned' = [returned EXCEPT
                      !["batched"] = DecodedTable(df, point_id_multiplier)]
          ELSE /\ stereotriangulated_csv' = stereotriangulated_csv
               /\ returned' = [returned EXCEPT !["batched"] = Raised("KeyError")]
    /\ pc' = "idle"
    /\ NoLocals
    /\ UNCHANGED <<inputs, progress, live_vars>>

Next ==
    \/ OriginalStart
    \/ OriginalBundle
    \/ OriginalSave
    \/ BatchedEncode
    \/ BatchedTriangulate
    \/ BatchedSave

Spec == Init /\ [][Next]_vars


\* ---------------------------------------------- what the input table holds
\* the input table has a detection of point_id by port at sync_index
Detected(sync_index, port, point_id) ==
    \E k \in 1..Len(point_data_csv) :
        /\ point_data_csv[k].sync_index = sync_index
        /\ point_data_csv[k].port = port
        /\ point_data_csv[k].point_id = point_id

\* both cameras of the pair detected point_id at sync_index
Shared(sync_index, point_id, pair) ==
    /\ Detected(sync_index, pair[1], point_id)
    /\ Detected(sync_index, pair[2], point_id)

\* the row of one shared detection: the point triangulated from the pixels
\* the two cameras recorded for it
RowOfShared(sync_index, point_id, pair) ==
    [sync_index |-> sync_index, point_id |-> point_id, pair |-> pair,
     xyz |-> TriangulatePoint(pair,
                 ImgLocOf([sync_index |-> sync_index, port |-> pair[1],
                           point_id |-> point_id]),
                 ImgLocOf([sync_index |-> sync_index, port |-> pair[2],
                           point_id |-> point_id]))]

\* a row for every shared detection of a pair whose geometry is available
RowsOfSharedDetections ==
    {RowOfShared(s, p, pair) : <<s, p, pair>> \in
        {t \in SyncIndices \X PointIds \X camera_array : Shared(t[1], t[2], t[3])}}

\* no pair shares a point at any sync index
NothingShared ==
    \A s \in SyncIndices, p \in PointIds, pair \in PairSet : ~Shared(s, p, pair)

\* a finished run gave a table
Produced(outcome) == outcome # None /\ "rows" \in DOMAIN outcome

NoRepeatedRow(rows) ==
    \A j, k \in 1..Len(rows) : rows[j] = rows[k] => j = k


\* ------------------------------------------------------------------ claims
\* C1: for every input table the per-bundle and the batched Assembler
\* produce the same set of output rows: once both have run, both have given
\* a table and the two tables hold the same rows, ignoring row order.
C1_ModesProduceSameRows ==
    (returned["original"] # None /\ returned["batched"] # None) =>
        /\ Produced(returned["original"])
        /\ Produced(returned["batched"])
        /\ Range(returned["original"].rows) = Range(returned["batched"].rows)

\* The two modes do agree on the tables that keep the encoding's
\* precondition and in which some pair shares a point.
ModesAgreeOnEncodableInput ==
    (/\ returned["original"] # None
     /\ Produced(returned["batched"])
     /\ \A k \in 1..Len(point_data_csv) : point_data_csv[k].point_id >= 0) =>
        Range(returned["original"].rows) = Range(returned["batched"].rows)

\* C2 (as claimed): every identifier combined by a batched run, whose
\* point_id is at most max_point_id, decodes by integer division and
\* remainder against max_point_id + 1 to its own (sync_index, point_id).
C2_RoundTrip ==
    pc = "batched_encoded" =>
        \A k \in 1..Len(point_data) :
            point_data[k].original_point_id <= point_id_multiplier - 1 =>
                /\ DecodeSyncIndex(point_data[k].point_id, point_id_multiplier)
                       = point_data[k].original_sync_index
                /\ DecodePointId(point_data[k].point_id, point_id_multiplier)
                       = point_data[k].original_point_id

\* C2 (amended): the round trip holds for every identifier whose point_id
\* lies in 0..max_point_id.
C2_RoundTripNonNegative ==
    pc = "batched_encoded" =>
        \A k \in 1..Len(point_data) :
            (/\ 0 <= point_data[k].original_point_id
             /\ point_data[k].original_point_id <= point_id_multiplier - 1) =>
                /\ DecodeSyncIndex(point_data[k].point_id, point_id_multiplier)
                       = point_data[k].original_sync_index
                /\ DecodePointId(point_data[k].point_id, point_id_multiplier)
                       = point_data[k].original_point_id

\* C2 witness: a batched run has combined an identifier of a later sync
\* index with a positive point_id, next to another identifier.
C2_Witness ==
    /\ pc = "batched_encoded"
    /\ \E j, k \in 1..Len(point_data) :
          /\ point_data[k].original_sync_index > 0
          /\ point_data[k].original_point_id > 0
          /\ point_data[j].original_point_id = 0
          /\ point_data[k].point_id # point_data[k].original_point_id

\* C3: in batched mode two detections with different (sync_index, point_id)
\* never get the same combined identifier, and the virtual bundle matches no
\* observation of one sync index with one of another.
C3_CombinedIdUnique ==
    /\ pc = "batched_encoded" =>
          \A j, k \in 1..Len(point_data) :
              point_data[j].point_id = point_data[k].point_id =>
                  /\ point_data[j].original_sync_index = point_data[k].original_sync_index
                  /\ point_data[j].original_point_id = point_data[k].original_point_id
    /\ pc = "batched_collected" =>
          \A pair \in PairSet :
              LET packet == synched_stereo_points.stereo_points_packets[pair]
              IN packet # None =>
                  \A n \in 1..Len(packet.common_ids) :
                      packet.img_loc_A[n][2] = packet.img_loc_B[n][2]

\* C4: batched mode ends in a hard failure rather than return or write a
\* table with wrong sync_index/point_id values: every row a batched run
\* returns, and every row of the file it wrote, is the row of a detection
\* shared by the row's pair at the row's sync index.
C4_NoCorruptedOutput ==
    Produced(returned["batched"]) =>
        /\ Range(returned["batched"].rows) \subseteq RowsOfSharedDetections
        /\ (returned["original"] = None =>
               Range(stereotriangulated_csv.rows) \subseteq RowsOfSharedDetections)

\* C5: the table of the per-bundle Assembler holds exactly one row for each
\* (pair, point_id, sync_index) detected by both cameras of a pair whose
\* geometry is available, and no other row.
C5_OneRowPerSharedDetection ==
    returned["original"] # None =>
        /\ Produced(returned["original"])
        /\ Range(returned["original"].rows) = RowsOfSharedDetections
        /\ NoRepeatedRow(returned["original"].rows)
        /\ stereotriangulated_csv # None

\* C5 witness: cameras 0 and 1 share one point at sync 0, camera 2 saw
\* another point, and the returned table holds the one row of that triple.
C5_Witness ==
    /\ Produced(returned["original"])
    /\ \E p \in PointIds :
          /\ Shared(0, p, <<0, 1>>)
          /\ returned["original"].rows = <<RowOfShared(0, p, <<0, 1>>)>>
    /\ \E p \in PointIds : Detected(0, 2, p)


\* the rows collected so far
CollectedRows ==
    IF stereotriangulated_table = None THEN {}
    ELSE Range(stereotriangulated_table.rows)

\* the identifiers of a frame packet's Point Set; none for an absent packet
PointSetIds(frame_packet) ==
    IF frame_packet = None THEN {} ELSE Range(frame_packet.points.point_id)

\* C6: the builder yields an entry for every unordered pair of distinct
\* cameras; the entry is null exactly when a camera of the pair has no Point
\* Set or the two Point Sets share no identifier (in per-bundle mode:
\* exactly when the input table has no point detected by both at the
\* bundle's sync index), and a pair with a null entry adds no row.
C6_NullExactlyWhenNothingShared ==
    synched_stereo_points # None =>
        LET packets == synched_stereo_points.stereo_points_packets
            frames == sync_packet.frame_packets
        IN /\ DOMAIN packets = {<<a, b>> \in PortSet \X PortSet : a < b}
           /\ \A pair \in DOMAIN packets :
                 /\ packets[pair] = None <=>
                        \/ frames[pair[1]] = None
                        \/ frames[pair[2]] = None
                        \/ PointSetIds(frames[pair[1]]) \cap PointSetIds(frames[pair[2]]) = {}
                 /\ pc = "original_loop" =>
                        (packets[pair] = None <=>
                            \A p \in PointIds :
                                ~Shared(synched_stereo_points.sync_index, p, pair))
                 /\ packets[pair] = None =>
                        \A row \in CollectedRows :
                            ~(/\ row.pair = pair
                              /\ row.sync_index = synched_stereo_points.sync_index)

\* C6 witness: a bundle in which both cameras of a pair hold a Point Set, the
\* two sets are disjoint and the entry is null, while another pair has an
\* entry that is not.
C6_Witness ==
    /\ synched_stereo_points # None
    /\ \E pair, other \in PairSet :
          /\ sync_packet.frame_packets[pair[1]] # None
          /\ sync_packet.frame_packets[pair[2]] # None
          /\ synched_stereo_points.stereo_points_packets[pair] = None
          /\ synched_stereo_points.stereo_points_packets[other] # None

\* C7: a pair without a geometric relationship adds no row whatever the
\* two cameras share, and its outcome differs from that of a pair with
\* nothing matched: its entry is a correspondence left without 3D points,
\* where the entry of a pair with nothing matched is null.
C7_NoGeometryNoRows ==
    /\ \A mode \in Modes : Produced(returned[mode]) =>
          \A row \in Range(returned[mode].rows) : row.pair \in camera_array
    /\ synched_stereo_points # None =>
          \A pair \in PairSet \ camera_array :
              LET packet == synched_stereo_points.stereo_points_packets[pair]
              IN /\ \A row \in CollectedRows : row.pair # pair
                 /\ packet # None =>
                        /\ packet.xyz = None
                        /\ Len(packet.common_ids) > 0
                 /\ pc = "original_loop" =>
                        (packet # None <=>
                            \E p \in PointIds :
                                Shared(synched_stereo_points.sync_index, p, pair))

\* C7 witness: a pair without geometry shares two points in a bundle and has
\* added no row, and another pair of the bundle matched nothing.
C7_Witness ==
    /\ synched_stereo_points # None
    /\ \E pair \in PairSet \ camera_array, other \in camera_array :
          /\ synched_stereo_points.stereo_points_packets[pair] # None
          /\ Len(synched_stereo_points.stereo_points_packets[pair].common_ids) = 2
          /\ synched_stereo_points.stereo_points_packets[other] = None
          /\ \A row \in CollectedRows : row.pair # pair

\* the rows of the input table a bundle of the running mode takes for a port
BundleRowsOfPort(port) ==
    LET OfBundle(row) ==
            /\ row.port = port
            /\ pc = "original_loop" => row.sync_index = sync_packet.sync_index
    IN SelectSeq(point_data_csv, OfBundle)

\* C8: every Sync Bundle of either mode has an entry for every port: a frame
\* packet holding the Point Set of the port's detection rows of the bundle
\* when there is such a row, None otherwise; a port without rows gives no
\* correspondence and no row of the bundle.
C8_EveryPortHasEntry ==
    sync_packet # None =>
        /\ DOMAIN sync_packet.frame_packets = PortSet
        /\ \A port \in PortSet :
              LET frame_packet == sync_packet.frame_packets[port]
                  rows == BundleRowsOfPort(port)
              IN IF rows # <<>>
                 THEN /\ frame_packet # None
                      /\ frame_packet.port = port
                      /\ frame_packet.points.img_loc = Column(rows, "img_loc")
                      /\ Len(frame_packet.points.point_id) = Len(rows)
                      /\ pc = "original_loop" =>
                             frame_packet.points.point_id = Column(rows, "point_id")
                 ELSE /\ frame_packet = None
                      /\ \A pair \in PairSet : port \in Range(pair) =>
                             synched_stereo_points.stereo_points_packets[pair] = None
                      /\ \A row \in CollectedRows :
                             (/\ port \in Range(row.pair)
                              /\ row.sync_index = sync_packet.sync_index) => FALSE

\* C8 witness: the per-bundle bundle of sync index 1 has no entry for port 0,
\* which has a detection at sync index 0, and an entry for port 1.
C8_Witness ==
    /\ pc = "original_loop"
    /\ sync_packet # None
    /\ sync_packet.sync_index = 1
    /\ sync_packet.frame_packets[0] = None
    /\ sync_packet.frame_packets[1] # None
    /\ \E p \in PointIds : Detected(0, 0, p)

\* C9: empty intersections are an error in neither mode: a run on a table in
\* which no pair shares a point ends normally, returning and writing an
\* empty table.
C9_EmptyIntersectionsNotAnError ==
    \A mode \in Modes :
        (returned[mode] # None /\ NothingShared) =>
            /\ Produced(returned[mode])
            /\ returned[mode].rows = <<>>
            /\ Produced(stereotriangulated_csv)

\* C10: a run of a mode on the same input table and camera array gives what
\* the mode's earlier run gave, whatever the earlier runs left behind.
C10_RunsAreRepeatable ==
    [][\A mode \in Modes :
          returned[mode] # None => returned'[mode] = returned[mode]]_vars

\* C10 witness: the per-bundle Assembler has returned a table with rows, the
\* batched one has run after it, and a second per-bundle run stands before
\* its return with rows collected.
C10_Witness ==
    /\ Produced(returned["original"])
    /\ returned["original"].rows # <<>>
    /\ returned["batched"] # None
    /\ pc = "original_loop"
    /\ i = Len(sync_indices)
    /\ CollectedRows # {}

\* ------------------------------------------------- the course of one run
\* the step ends the running function, by return or by an exception
RunEnds == pc # "idle" /\ pc' = "idle"

\* the mode of the running function
RunningMode == IF pc = "original_loop" THEN "original" ELSE "batched"

\* the rows of the accumulator
AccumulatedRows ==
    IF stereotriangulated_table = None THEN <<>> ELSE stereotriangulated_table.rows

\* the distinct sync indices of the input table, ascending
InputSyncIndices ==
    SortSet({point_data_csv[k].sync_index : k \in 1..Len(point_data_csv)})

\* C11: a run is all-or-nothing.  No step before the last of a run touches
\* the output file.  The step that ends a run with a table writes that
\* table, and takes place only once every Sync Bundle has been built,
\* matched and triangulated (per-bundle mode: the loop has passed every
\* distinct sync index of the input; batched mode: the virtual bundle is
\* triangulated) and the written rows are all the accumulated ones.  The
\* step that ends a run with an exception leaves the file as it was.
C11_AllOrNothing ==
    [][/\ ~RunEnds => stereotriangulated_csv' = stereotriangulated_csv
       /\ RunEnds =>
             LET outcome == returned'[RunningMode]
             IN IF Produced(outcome)
                THEN /\ stereotriangulated_csv' = outcome
                     /\ Len(outcome.rows) = Len(AccumulatedRows)
                     /\ synched_stereo_points # None \/ InputSyncIndices = <<>>
                     /\ RunningMode = "original" =>
                            /\ i = Len(InputSyncIndices)
                            /\ Len(calls) = 2 * Len(InputSyncIndices)
                            /\ outcome.rows = AccumulatedRows
                     /\ RunningMode = "batched" =>
                            /\ pc = "batched_collected"
                            /\ Len(calls) = 2
                ELSE stereotriangulated_csv' = stereotriangulated_csv]_vars

\* C11 witness: a per-bundle run has accumulated rows of its first bundle,
\* has a bundle left, and no output file exists yet.
C11_Witness ==
    /\ pc = "original_loop"
    /\ 0 < i /\ i < Len(sync_indices)
    /\ AccumulatedRows # <<>>
    /\ stereotriangulated_csv = None

\* the k-th builder call and the k-th triangulator call of a run
BuilderCall(k) == calls[2 * k - 1]
TriangulatorCall(k) == calls[2 * k]

\* C12: per-bundle mode calls the builder and then the triangulator once for
\* each distinct sync index of the input, in ascending order, and has called
\* them for every distinct sync index when its loop ends; batched mode calls
\* the builder and then the triangulator once, on a bundle of sync index 0
\* made of rows that all carry sync index 0, whatever the input holds.
C12_OncePerBundle ==
    /\ pc = "original_loop" =>
          /\ Len(calls) = 2 * i
          /\ i <= Len(InputSyncIndices)
          /\ i = Len(sync_indices) => i = Len(InputSyncIndices)
          /\ \A k \in 1..i :
                /\ BuilderCall(k) = [callee |-> "get_synched_paired_points",
                                     sync_index |-> InputSyncIndices[k]]
                /\ TriangulatorCall(k) = [callee |-> "triangulate_synched_points",
                                          sync_index |-> InputSyncIndices[k]]
    /\ pc = "batched_encoded" => calls = <<>>
    /\ pc = "batched_collected" =>
          /\ calls = <<[callee |-> "get_synched_paired_points", sync_index |-> 0],
                       [callee |-> "triangulate_synched_points", sync_index |-> 0]>>
          /\ sync_packet.sync_index = 0
          /\ \A k \in 1..Len(point_data) : point_data[k].sync_index = 0

\* C12 witness: a batched run on a table of two distinct sync indices has
\* made its two calls, after a per-bundle run on the same table has returned.
C12_Witness ==
    /\ pc = "batched_collected"
    /\ Len(InputSyncIndices) = 2
    /\ Len(calls) = 2
    /\ returned["original"] # None

\* C13: in a non-null correspondence the two sides are aligned by
\* identifier: there is one pixel of each camera per matched identifier, the
\* matched identifiers are those both Point Sets hold, and the pixel taken
\* from a camera for an identifier is one its Point Set records for that
\* identifier (in per-bundle mode: the pixel of the camera's detection of the
\* identifier at the bundle's sync index), at whatever positions the two
\* Point Sets hold the identifier.
C13_AlignedByIdentifier ==
    synched_stereo_points # None =>
        \A pair \in PairSet :
            LET packet == synched_stereo_points.stereo_points_packets[pair]
                points_A == sync_packet.frame_packets[pair[1]].points
                points_B == sync_packet.frame_packets[pair[2]].points
            IN packet # None =>
                /\ Len(packet.img_loc_A) = Len(packet.common_ids)
                /\ Len(packet.img_loc_B) = Len(packet.common_ids)
                /\ Range(packet.common_ids) =
                       Range(points_A.point_id) \cap Range(points_B.point_id)
                /\ \A n \in 1..Len(packet.common_ids) :
                      /\ \E k \in 1..Len(points_A.point_id) :
                            /\ points_A.point_id[k] = packet.common_ids[n]
                            /\ points_A.img_loc[k] = packet.img_loc_A[n]
                      /\ \E k \in 1..Len(points_B.point_id) :
                            /\ points_B.point_id[k] = packet.common_ids[n]
                            /\ points_B.img_loc[k] = packet.img_loc_B[n]
                      /\ pc = "original_loop" =>
                            /\ packet.img_loc_A[n] =
                                   ImgLocOf([sync_index |-> packet.sync_index,
                                             port |-> pair[1],
                                             point_id |-> packet.common_ids[n]])
                            /\ packet.img_loc_B[n] =
                                   ImgLocOf([sync_index |-> packet.sync_index,
                                             port |-> pair[2],
                                             point_id |-> packet.common_ids[n]])

\* C13 witness: a correspondence of two matched identifiers whose cameras
\* hold them at different positions: one Point Set lists them in the
\* opposite order of the other.
C13_Witness ==
    /\ synched_stereo_points # None
    /\ \E pair \in PairSet :
          LET packet == synched_stereo_points.stereo_points_packets[pair]
          IN /\ packet # None
             /\ Len(packet.common_ids) = 2
             /\ sync_packet.frame_packets[pair[1]].points.point_id
                    # sync_packet.frame_packets[pair[2]].points.point_id
             /\ packet.xyz # None

\* the place of a pair in the builder's fixed pair order
PairIndex(pair) == CHOOSE k \in 1..Len(Pairs) : Pairs[k] = pair

\* row a stands before row b by sync index, then pair, then identifier
BeforeBySyncThenPair(a, b) ==
    \/ a.sync_index < b.sync_index
    \/ /\ a.sync_index = b.sync_index
       /\ PairIndex(a.pair) < PairIndex(b.pair)
    \/ /\ a.sync_index = b.sync_index
       /\ a.pair = b.pair
       /\ a.point_id < b.point_id

\* row a stands before row b by pair, then identifier
BeforeByPair(a, b) ==
    \/ PairIndex(a.pair) < PairIndex(b.pair)
    \/ /\ a.pair = b.pair
       /\ a.point_id < b.point_id

\* C14: the order of the rows is fixed by the input table and the port
\* order.  The rows a per-bundle run accumulates and returns stand in
\* ascending sync index, within a sync index in the builder's pair order,
\* within a pair in ascending identifier.  The rows a batched run
\* accumulates stand in the builder's pair order, within a pair in ascending
\* combined identifier, and the rows it returns are grouped by pair in that
\* order.
C14_RowOrderStable ==
    /\ pc = "original_loop" =>
          \A j, k \in 1..Len(AccumulatedRows) :
              j < k => BeforeBySyncThenPair(AccumulatedRows[j], AccumulatedRows[k])
    /\ Produced(returned["original"]) =>
          \A j, k \in 1..Len(returned["original"].rows) :
              j < k => BeforeBySyncThenPair(returned["original"].rows[j],
                                            returned["original"].rows[k])
    /\ pc = "batched_collected" =>
          \A j, k \in 1..Len(AccumulatedRows) :
              j < k => BeforeByPair(AccumulatedRows[j], AccumulatedRows[k])
    /\ Produced(returned["batched"]) =>
          \A j, k \in 1..Len(returned["batched"].rows) :
              j < k => PairIndex(returned["batched"].rows[j].pair)
                           <= PairIndex(returned["batched"].rows[k].pair)

\* C14 witness: both modes have returned, the per-bundle table holding rows
\* of two sync indices and the batched table two rows.
C14_Witness ==
    /\ Produced(returned["original"])
    /\ Produced(returned["batched"])
    /\ \E j, k \in 1..Len(returned["original"].rows) :
          returned["original"].rows[j].sync_index
              < returned["original"].rows[k].sync_index
    /\ Len(returned["batched"].rows) = 2

\* ================================================================ LiveStream
\* cameras/live_stream.py: one LiveStream, the _play_worker threads it
\* starts, a caller of change_resolution, and consumers that subscribe,
\* unsubscribe and read the latest frame.  A frame is the number of the
\* capture.read() call that delivered it.  frame_time, fps and the fps
\* overlay drawn on the frame are read by no step modelled here and are left
\* out.

\* the largest number of frames the camera delivers, and of passes of one
\* worker that read the camera
MaxFrames == 2
\* the largest number of change_resolution calls
MaxResolutionChanges == 1

\* whatever a caller subscribes: an id or a queue
SubscriberIds == {"display_0", "recorder"}
Resolutions == {<<640, 480>>, <<1280, 720>>}

\* Camera(port), connected
Camera(port) ==
    [port |-> port, capture_opened |-> TRUE, size |-> <<640, 480>>, reads |-> 0]

\* LiveStream.__init__, the worker thread started and not yet run
LiveStream(camera, fps_target) ==
    [camera |-> camera,
     port |-> camera.port,
     stop_event |-> FALSE,
     subscribers |-> <<>>,
     latest_frame_packet |-> None,
     frame_updated |-> FALSE,
     stop_confirm |-> <<>>,
     fps_target |-> fps_target,
     frame_index |-> None,
     read_result |-> None]

\* list.remove: the list without the first occurrence of the element
ListRemove(list, element) ==
    LET k == FirstIndex(list, element)
    IN SubSeq(list, 1, k - 1) \o SubSeq(list, k + 1, Len(list))

\* Subscribe without the test for an id already subscribed
SubscribeAgain(self, subscriber_id) ==
    [self EXCEPT !.subscribers = Append(@, subscriber_id)]

\* LiveStream.subscribe
Subscribe(self, subscriber_id) ==
    IF subscriber_id \notin Range(self.subscribers)
    THEN [self EXCEPT !.subscribers = Append(@, subscriber_id)]
    ELSE self

\* LiveStream.unsubscribe
Unsubscribe(self, subscriber_id) ==
    IF subscriber_id \in Range(self.subscribers)
    THEN [self EXCEPT !.subscribers = ListRemove(@, subscriber_id)]
    ELSE self

\* LiveStream.get_latest_frame
GetLatestFrame(self) == self.latest_frame_packet

\* LiveStream.set_fps_target
SetFpsTarget(self, fps_target) == [self EXCEPT !.fps_target = fps_target]

\* FramePacket(port, frame_time, frame_index, frame, fps)
FramePacket(self) ==
    [port |-> self.port,
     frame_index |-> self.frame_index,
     frame |-> self.read_result.frame]

\* Publish that keeps a packet no consumer has replaced
PublishKeepingFirst(self, frame_packet) ==
    IF self.latest_frame_packet = None
    THEN [self EXCEPT !.latest_frame_packet = frame_packet]
    ELSE self

\* self.latest_frame_packet = frame_packet
Publish(self, frame_packet) ==
    [self EXCEPT !.latest_frame_packet = frame_packet]

\* self.success and len(self.subscribers) > 0
WillPublish(self) ==
    self.read_result.success /\ Len(self.subscribers) > 0

\* ------------------------------------------------------- the worker thread
\* a _play_worker thread as it is started: where it stands, and whether its
\* local process_duration has been assigned
PlayWorker == [at |-> "start", process_duration |-> FALSE]

WorkerAt(w, place) == w \in DOMAIN play_workers /\ play_workers[w].at = place

WorkerGoes(w, place) == play_workers' = [play_workers EXCEPT ![w].at = place]

\* self.frame_index = 0
PlayWorkerStart(w) ==
    /\ WorkerAt(w, "start")
    /\ stream' = [stream EXCEPT !.frame_index = 0]
    /\ WorkerGoes(w, "while")
    /\ UNCHANGED <<assembler_vars, session_vars, widget_vars, resolution_change, published, observed>>

\* while not self.stop_event.is_set(), and the test of capture.isOpened();
\* with the capture closed the pass sleeps and goes on to log its timing
PlayWorkerWhile(w) ==
    /\ WorkerAt(w, "while")
    /\ IF stream.stop_event THEN WorkerGoes(w, "stopping")
       ELSE IF stream.camera.capture_opened THEN WorkerGoes(w, "spinlock")
       ELSE WorkerGoes(w, "log")
    /\ UNCHANGED <<assembler_vars, session_vars, widget_vars, stream, resolution_change, published, observed>>

\* PlayWorkerSpinlock that does not wait: the worker goes on to read
PlayWorkerSpinlockSkipped(w) ==
    /\ WorkerAt(w, "spinlock")
    /\ WorkerGoes(w, "read")
    /\ UNCHANGED <<assembler_vars, session_vars, widget_vars, stream, resolution_change, published, observed>>

\* while len(self.subscribers) == 0 and not self.stop_event.is_set()
PlayWorkerSpinlock(w) ==
    /\ WorkerAt(w, "spinlock")
    /\ IF Len(stream.subscribers) = 0 /\ ~stream.stop_event
       THEN WorkerGoes(w, "spinlock")
       ELSE WorkerGoes(w, "read")
    /\ UNCHANGED <<assembler_vars, session_vars, widget_vars, stream, resolution_change, published, observed>>

\* self.success, self.frame = self.camera.capture.read(); a worker makes at
\* most MaxFrames passes that read
PlayWorkerRead(w) ==
    /\ WorkerAt(w, "read")
    /\ stream.frame_index < MaxFrames
    /\ \E success \in BOOLEAN :
          IF success
          THEN /\ stream.camera.reads < MaxFrames
               /\ stream' = [stream EXCEPT
                      !.camera.reads = @ + 1,
                      !.read_result = [success |-> TRUE, frame |-> stream.camera.reads + 1]]
          ELSE stream' = [stream EXCEPT
                      !.read_result = [success |-> FALSE, frame |-> None]]
    /\ WorkerGoes(w, "process")
    /\ UNCHANGED <<assembler_vars, session_vars, widget_vars, resolution_change, published, observed>>

\* if self.success and len(self.subscribers) > 0: the packet is made and
\* becomes latest_frame_packet
PlayWorkerProcess(w) ==
    /\ WorkerAt(w, "process")
    /\ IF WillPublish(stream)
       THEN /\ stream' = Publish(stream, FramePacket(stream))
            /\ published' = Append(published, FramePacket(stream))
            /\ WorkerGoes(w, "set")
       ELSE /\ UNCHANGED <<stream, published>>
            /\ WorkerGoes(w, "next")
    /\ UNCHANGED <<assembler_vars, session_vars, widget_vars, resolution_change, observed>>

\* Event.set() as the threads blocked in wait() see it: each is notified and
\* goes on to read, whatever becomes of the flag afterwards
Notified(threads) ==
    [t \in DOMAIN threads |->
        IF threads[t].at = "waiting" THEN [threads[t] EXCEPT !.at = "read"]
        ELSE threads[t]]

\* self.frame_updated.set()
PlayWorkerSet(w) ==
    /\ WorkerAt(w, "set")
    /\ stream' = [stream EXCEPT !.frame_updated = TRUE]
    /\ recorders' = Notified(recorders)
    /\ WorkerGoes(w, "clear")
    /\ UNCHANGED <<assembler_vars, session_vars, widget, event_queue, resolution_change,
                   published, observed>>

\* self.frame_updated.clear(); process_duration = ...
PlayWorkerClear(w) ==
    /\ WorkerAt(w, "clear")
    /\ stream' = [stream EXCEPT !.frame_updated = FALSE]
    /\ play_workers' = [play_workers EXCEPT
           ![w] = [at |-> "next", process_duration |-> TRUE]]
    /\ UNCHANGED <<assembler_vars, session_vars, widget_vars, resolution_change, published, observed>>

\* self.frame_index += 1
PlayWorkerNext(w) ==
    /\ WorkerAt(w, "next")
    /\ stream' = [stream EXCEPT !.frame_index = @ + 1]
    /\ WorkerGoes(w, "log")
    /\ UNCHANGED <<assembler_vars, session_vars, widget_vars, resolution_change, published, observed>>

\* the timing log that ends a pass: if self.success and len(self.subscribers)
\* > 0 the message is formatted with process_duration.  self.success is an
\* attribute the first capture.read() creates (AttributeError before it), and
\* process_duration is a local the worker assigns when it publishes
\* (UnboundLocalError before it); an exception ends the thread.
PlayWorkerLog(w) ==
    /\ WorkerAt(w, "log")
    /\ IF stream.read_result = None THEN WorkerGoes(w, "raised")
       ELSE IF /\ stream.read_result.success
               /\ Len(stream.subscribers) > 0
               /\ ~play_workers[w].process_duration
       THEN WorkerGoes(w, "raised")
       ELSE WorkerGoes(w, "while")
    /\ UNCHANGED <<assembler_vars, session_vars, widget_vars, stream, resolution_change, published, observed>>

\* self.stop_event.clear(); self.stop_confirm.put("Successful Stop")
PlayWorkerStop(w) ==
    /\ WorkerAt(w, "stopping")
    /\ stream' = [stream EXCEPT
           !.stop_event = FALSE,
           !.stop_confirm = Append(@, "Successful Stop")]
    /\ WorkerGoes(w, "done")
    /\ UNCHANGED <<assembler_vars, session_vars, widget_vars, resolution_change, published, observed>>

\* ------------------------------------------------------- change_resolution
\* self.stop_event.set()
ChangeResolutionStop(res) ==
    /\ resolution_change.at = "idle"
    /\ resolution_change.count < MaxResolutionChanges
    /\ stream' = [stream EXCEPT !.stop_event = TRUE]
    /\ resolution_change' = [resolution_change EXCEPT
           !.at = "stop_confirm_get", !.res = res, !.count = @ + 1]
    /\ UNCHANGED <<assembler_vars, session_vars, widget_vars, play_workers, published, observed>>

\* ChangeResolutionDisconnect that does not wait for the stop confirmation
ChangeResolutionDisconnectUnconfirmed ==
    /\ resolution_change.at = "stop_confirm_get"
    /\ stream' = [stream EXCEPT !.camera.capture_opened = FALSE]
    /\ resolution_change' = [resolution_change EXCEPT !.at = "connect"]
    /\ UNCHANGED <<assembler_vars, session_vars, widget_vars, play_workers, published, observed>>

\* self.stop_confirm.get(), then self.camera.disconnect()
ChangeResolutionDisconnect ==
    /\ resolution_change.at = "stop_confirm_get"
    /\ stream.stop_confirm # <<>>
    /\ stream' = [stream EXCEPT
           !.stop_confirm = Tail(@),
           !.camera.capture_opened = FALSE]
    /\ resolution_change' = [resolution_change EXCEPT !.at = "connect"]
    /\ UNCHANGED <<assembler_vars, session_vars, widget_vars, play_workers, published, observed>>

\* self.camera.connect(); self.camera.size = res
ChangeResolutionConnect ==
    /\ resolution_change.at = "connect"
    /\ stream' = [stream EXCEPT
           !.camera.capture_opened = TRUE,
           !.camera.size = resolution_change.res]
    /\ resolution_change' = [resolution_change EXCEPT !.at = "thread_start"]
    /\ UNCHANGED <<assembler_vars, session_vars, widget_vars, play_workers, published, observed>>

\* self.thread = Thread(target=self._play_worker); self.thread.start()
ChangeResolutionStartThread ==
    /\ resolution_change.at = "thread_start"
    /\ play_workers' = Append(play_workers, PlayWorker)
    /\ resolution_change' = [resolution_change EXCEPT !.at = "idle"]
    /\ UNCHANGED <<assembler_vars, session_vars, widget_vars, stream, published, observed>>

\* --------------------------------------------------------------- consumers
StreamSubscribe(subscriber_id) ==
    /\ stream' = Subscribe(stream, subscriber_id)
    /\ UNCHANGED <<assembler_vars, session_vars, widget_vars, play_workers, resolution_change, published,
                   observed>>

StreamUnsubscribe(subscriber_id) ==
    /\ stream' = Unsubscribe(stream, subscriber_id)
    /\ UNCHANGED <<assembler_vars, session_vars, widget_vars, play_workers, resolution_change, published,
                   observed>>

\* a consumer calls get_latest_frame
StreamGetLatestFrame ==
    /\ observed' = observed \cup {GetLatestFrame(stream)}
    /\ UNCHANGED <<assembler_vars, session_vars, widget_vars, stream, play_workers, resolution_change,
                   published>>

\* no assembler runs while the stream is followed
AssemblerIdle ==
    /\ point_data_csv = <<>>
    /\ camera_array = {}
    /\ stereotriangulated_csv = None
    /\ returned = [mode \in Modes |-> None]
    /\ pc = "idle"
    /\ point_data = <<>>
    /\ sync_indices = <<>>
    /\ i = 0
    /\ sync_packet = None
    /\ synched_stereo_points = None
    /\ stereotriangulated_table = None
    /\ point_id_multiplier = 0
    /\ progress = <<>>
    /\ calls = <<>>

InitStream ==
    /\ AssemblerIdle
    /\ stream = LiveStream(Camera(0), 6)
    /\ play_workers = <<PlayWorker>>
    /\ resolution_change = [at |-> "idle", res |-> <<640, 480>>, count |-> 0]
    /\ published = <<>>
    /\ observed = {}
    /\ NoSession
    /\ NoWidget

NextStream ==
    \/ \E w \in DOMAIN play_workers : PlayWorkerStart(w)
    \/ \E w \in DOMAIN play_workers : PlayWorkerWhile(w)
    \/ \E w \in DOMAIN play_workers : PlayWorkerSpinlock(w)
    \/ \E w \in DOMAIN play_workers : PlayWorkerRead(w)
    \/ \E w \in DOMAIN play_workers : PlayWorkerProcess(w)
    \/ \E w \in DOMAIN play_workers : PlayWorkerSet(w)
    \/ \E w \in DOMAIN play_workers : PlayWorkerClear(w)
    \/ \E w \in DOMAIN play_workers : PlayWorkerNext(w)
    \/ \E w \in DOMAIN play_workers : PlayWorkerLog(w)
    \/ \E w \in DOMAIN play_workers : PlayWorkerStop(w)
    \/ \E res \in Resolutions : ChangeResolutionStop(res)
    \/ ChangeResolutionDisconnect
    \/ ChangeResolutionConnect
    \/ ChangeResolutionStartThread
    \/ \E subscriber_id \in SubscriberIds : StreamSubscribe(subscriber_id)
    \/ \E subscriber_id \in SubscriberIds : StreamUnsubscribe(subscriber_id)
    \/ StreamGetLatestFrame

SpecStream == InitStream /\ [][NextStream]_vars

\* the packet published last, None before the first publication
LastPublished ==
    IF published = <<>> THEN None ELSE published[Len(published)]

\* C15: the stream keeps one packet, the one published last: every
\* publication replaces latest_frame_packet by the packet just made,
\* get_latest_frame returns the packet published last, a packet replaced
\* before any consumer read it is never returned afterwards, and the
\* stream's only queue, stop_confirm, never holds a packet.
C15_LastValueWins ==
    /\ [](/\ stream.latest_frame_packet = LastPublished
          /\ \A packet \in observed : packet = None \/ packet \in Range(published)
          /\ \A k \in 1..Len(stream.stop_confirm) :
                stream.stop_confirm[k] = "Successful Stop")
    /\ [][/\ published' # published =>
                /\ Len(published') = Len(published) + 1
                /\ stream'.latest_frame_packet = published'[Len(published')]
                /\ stream'.latest_frame_packet.frame = stream.read_result.frame
          /\ observed' # observed =>
                observed' = observed \cup {LastPublished}
          /\ \A k \in 1..(Len(published) - 1) :
                published[k] \notin observed => published[k] \notin observed']_vars

\* C15 witness: two packets were published with no read between them, the
\* consumer read afterwards and has the later packet and not the earlier.
C15_Witness ==
    /\ Len(published) = 2
    /\ published[1] \notin observed
    /\ published[2] \in observed
    /\ stream.latest_frame_packet = published[2]

\* =============================================================== LiveSession
\* session/session.py: one LiveSession over the cameras attached to the
\* machine, with the LiveStream of each port, the recording_worker threads
\* and the Queue objects start_recording makes.  A LiveStream is the record
\* of the LiveStream section; its worker is followed here a whole pass at a
\* time.  Camera, Configurator and FrameEmitter are not part of the file: a
\* Configurator holds the set of ports it has a camera for, and a
\* FrameEmitter holds whether it is subscribed.  The signals of
\* load_stream_tools, disconnect_cameras and set_fps have no listener here
\* and are left out, as is _adjust_resolutions, which no configuration
\* modelled here asks for.

\* the largest number of recordings started
MaxRecordings == 1
\* the largest number of passes the worker of a session's stream makes
MaxPasses == 1

\* range(0, MAX_CAMERA_PORT_CHECK), cut to two ports
SessionPorts == 0..1
\* the configurations the session is made over, and the sets of ports a
\* camera is plugged into
Configurations == {{}, {0, 1}}
Attachments == {{0}, {0, 1}}
\* the fps argument of start_recording, None or a number
Some(value) == [value |-> value]
FpsArguments == {None, Some(10)}
\* what cv2.VideoWriter(...) does
WriterOutcomes == {"opened", "not_opened", "raises"}

\* not x, for x None or a port
Falsy(x) == x = None \/ x.value = 0

\* the sequences that list the elements of S once each
Orders(S) ==
    {order \in [1..Cardinality(S) -> S] :
        \A j, k \in 1..Cardinality(S) : order[j] = order[k] => j = k}

\* dict[key] = value
DictPut(dict, key, value) ==
    [k \in DOMAIN dict \cup {key} |-> IF k = key THEN value ELSE dict[k]]

\* the keys of a dict in insertion order, after dict[key] = value
KeysPut(keys, key) == IF key \in Range(keys) THEN keys ELSE Append(keys, key)

\* a LiveStream whose worker has passed self.frame_index = 0
Rolling(self) == [self EXCEPT !.frame_index = 0]

\* one pass of _play_worker with subscribers and a successful read
PlayWorkerPass(self) ==
    LET read == [self EXCEPT
                    !.camera.reads = @ + 1,
                    !.read_result = [success |-> TRUE, frame |-> self.camera.reads + 1]]
    IN [Publish(read, FramePacket(read)) EXCEPT !.frame_index = @ + 1]

\* FrameEmitter(stream, pixmap_edge_length)
FrameEmitter == [subscribed |-> FALSE]

\* LiveSession.__init__
LiveSession ==
    [cameras |-> {},
     streams |-> << >>,
     streams_keys |-> << >>,
     frame_emitters |-> << >>,
     active_port |-> None,
     stream_tools_in_process |-> FALSE,
     stream_tools_loaded |-> FALSE,
     is_recording |-> FALSE,
     video_writer |-> None,
     fps_target |-> 30,
     recording_queue |-> None,
     recording_port |-> None]

\* UnsubscribeAllFrameEmitters that leaves the emitters as they are
UnsubscribeNoFrameEmitter(self) == self

\* LiveSession.unsubscribe_all_frame_emitters
UnsubscribeAllFrameEmitters(self) ==
    [self EXCEPT !.frame_emitters =
        [port \in DOMAIN self.frame_emitters |->
            [self.frame_emitters[port] EXCEPT !.subscribed = FALSE]]]

\* LiveSession.subscribe_all_frame_emitters
SubscribeAllFrameEmitters(self) ==
    [self EXCEPT !.frame_emitters =
        [port \in DOMAIN self.frame_emitters |->
            [self.frame_emitters[port] EXCEPT !.subscribed = TRUE]]]

\* LiveSession.set_active_stream: the session after the call and the value
\* returned
SetActiveStream(self, port) ==
    IF port \notin DOMAIN self.streams
    THEN [self |-> self, result |-> FALSE]
    ELSE LET unsubscribed ==
                 UnsubscribeAllFrameEmitters([self EXCEPT !.active_port = Some(port)])
         IN IF port \in DOMAIN unsubscribed.frame_emitters
            THEN [self |-> [unsubscribed EXCEPT
                               !.frame_emitters[port].subscribed = TRUE],
                  result |-> TRUE]
            ELSE [self |-> unsubscribed, result |-> FALSE]

RECURSIVE AddCams(_, _)
\* _find_cameras: add_cam for the ports found, in the order the pool's
\* threads reach self.streams[port] = LiveStream(cam, ...)
AddCams(self, found) ==
    IF found = <<>> THEN self
    ELSE AddCams(
             [self EXCEPT
                 !.cameras = @ \cup {Head(found)},
                 !.streams = DictPut(@, Head(found),
                                 Rolling(LiveStream(Camera(Head(found)), self.fps_target))),
                 !.streams_keys = KeysPut(@, Head(found))],
             Tail(found))

RECURSIVE CreateStreamTools(_, _)
\* the loop "for port, cam in self.cameras.items()" of load_stream_tools
CreateStreamTools(self, ports) ==
    IF ports = <<>> THEN self
    ELSE CreateStreamTools(
             IF Head(ports) \notin DOMAIN self.streams
             THEN [self EXCEPT
                      !.streams = DictPut(@, Head(ports),
                                      Rolling(LiveStream(Camera(Head(ports)), self.fps_target))),
                      !.streams_keys = KeysPut(@, Head(ports)),
                      !.frame_emitters = DictPut(@, Head(ports), FrameEmitter)]
             ELSE self,
             Tail(ports))

\* if not self.active_port and self.streams: the first stream made active
ActivateFirstStream(self) ==
    IF Falsy(self.active_port) /\ DOMAIN self.streams # {}
    THEN SetActiveStream([self EXCEPT !.active_port = Some(self.streams_keys[1])],
                         self.streams_keys[1]).self
    ELSE self

\* ------------------------------------------------------------ the handlers
\* load_stream_tools, its worker run to the end
LoadStreamTools ==
    /\ \E found \in Orders((SessionPorts \cap attached_ports) \ (config \cap attached_ports)) :
          LET configured == [session EXCEPT
                                !.stream_tools_in_process = TRUE,
                                !.cameras = config \cap attached_ports]
              scanned == IF Cardinality(config) = 0
                         THEN AddCams(configured, found)
                         ELSE configured
              created == CreateStreamTools(scanned, SortSet(scanned.cameras))
              activated == ActivateFirstStream(created)
          IN /\ session' = [activated EXCEPT
                    !.stream_tools_loaded = TRUE,
                    !.stream_tools_in_process = FALSE]
             /\ config' = IF Cardinality(config) = 0 THEN config \cup Range(found)
                          ELSE config
    /\ UNCHANGED <<assembler_vars, stream_vars, widget_vars, attached_ports, recording_queues,
                   recording_threads, signals, recording_feed>>

\* disconnect_cameras
DisconnectCameras ==
    /\ session' = [session EXCEPT
           !.streams = << >>,
           !.streams_keys = << >>,
           !.cameras = {},
           !.stream_tools_loaded = FALSE]
    /\ UNCHANGED <<assembler_vars, stream_vars, widget_vars, config, attached_ports,
                   recording_queues, recording_threads, signals, recording_feed>>

\* set_active_stream(port)
SessionSetActiveStream(port) ==
    /\ session' = SetActiveStream(session, port).self
    /\ UNCHANGED <<assembler_vars, stream_vars, widget_vars, config, attached_ports,
                   recording_queues, recording_threads, signals, recording_feed>>

\* subscribe_all_frame_emitters
SessionSubscribeAll ==
    /\ session' = SubscribeAllFrameEmitters(session)
    /\ UNCHANGED <<assembler_vars, stream_vars, widget_vars, config, attached_ports,
                   recording_queues, recording_threads, signals, recording_feed>>

\* unsubscribe_all_frame_emitters
SessionUnsubscribeAll ==
    /\ session' = UnsubscribeAllFrameEmitters(session)
    /\ UNCHANGED <<assembler_vars, stream_vars, widget_vars, config, attached_ports,
                   recording_queues, recording_threads, signals, recording_feed>>

\* StartRecordingRefused without the test of self.is_recording
StartRecordingRefusedForNoStreamOnly(self, port) ==
    port \notin DOMAIN self.streams

\* start_recording returns False at once: a recording is in progress, or the
\* port has no stream
StartRecordingRefused(self, port) ==
    self.is_recording \/ port \notin DOMAIN self.streams

\* cv2.VideoWriter(str(filepath), fourcc, fps, resolution)
VideoWriter(opened) == [opened |-> opened, released |-> FALSE, frames |-> <<>>]

\* video_writer.release()
Release(video_writer) == [video_writer EXCEPT !.opened = FALSE, !.released = TRUE]

\* start_recording(port, fps=fps_argument), where VideoWriter(...) does what
\* outcome says, given the Queue it would make: the session after the call,
\* the value returned, and whether the queue was made and the worker started
StartRecording(self, queue, port, fps_argument, outcome) ==
    IF StartRecordingRefused(self, port)
    THEN [self |-> self, result |-> FALSE, started |-> FALSE]
    ELSE IF port \notin self.cameras
    THEN [self |-> self, result |-> FALSE, started |-> FALSE]
    ELSE LET fps == IF fps_argument = None THEN self.fps_target
                    ELSE fps_argument.value
             with_fps == [self EXCEPT !.streams[port] = SetFpsTarget(@, fps)]
         IN IF outcome = "raises"
            THEN [self |-> [with_fps EXCEPT !.video_writer = None],
                  result |-> FALSE, started |-> FALSE]
            ELSE IF outcome = "not_opened"
            THEN [self |-> [with_fps EXCEPT !.video_writer = VideoWriter(FALSE)],
                  result |-> FALSE, started |-> FALSE]
            ELSE [self |-> [with_fps EXCEPT
                               !.video_writer = VideoWriter(TRUE),
                               !.recording_queue = queue,
                               !.streams[port] = Subscribe(@, queue),
                               !.is_recording = TRUE,
                               !.recording_port = Some(port)],
                  result |-> TRUE, started |-> TRUE]

\* a recording_worker thread: where it stands, and the Queue its get waits on
RecordingThread == [at |-> "while", queue |-> 0]

\* the Queue the next start_recording makes
NextQueue == [queue |-> Len(recording_queues) + 1]

\* a call of start_recording; the worker thread starts with the call
SessionStartRecording(port, fps_argument, outcome) ==
    /\ LET call == StartRecording(session, NextQueue, port, fps_argument, outcome)
       IN /\ session' = call.self
          /\ IF call.started
             THEN /\ Len(recording_queues) < MaxRecordings
                  /\ recording_queues' = Append(recording_queues, <<>>)
                  /\ recording_threads' = Append(recording_threads, RecordingThread)
                  /\ signals' = [signals EXCEPT !.recording_started = @ + 1]
                  /\ recording_feed' = <<>>
             ELSE UNCHANGED <<recording_queues, recording_threads, signals,
                              recording_feed>>
    /\ UNCHANGED <<assembler_vars, stream_vars, widget_vars, config, attached_ports>>

\* stop_recording
SessionStopRecording ==
    /\ IF ~session.is_recording
       THEN UNCHANGED <<session, recording_queues>>
       ELSE /\ recording_queues' =
                   [recording_queues EXCEPT ![session.recording_queue.queue] =
                       Append(@, None)]
            /\ session' =
                   IF session.recording_port.value \in DOMAIN session.streams
                   THEN [session EXCEPT
                            !.is_recording = FALSE,
                            !.streams[session.recording_port.value] =
                                Unsubscribe(@, session.recording_queue)]
                   ELSE [session EXCEPT !.is_recording = FALSE]
    /\ UNCHANGED <<assembler_vars, stream_vars, widget_vars, config, attached_ports,
                   recording_threads, signals, recording_feed>>

\* ---------------------------------------------------- the recording worker
RecordingAt(t, place) ==
    t \in DOMAIN recording_threads /\ recording_threads[t].at = place

RecordingGoes(t, place) ==
    recording_threads' = [recording_threads EXCEPT ![t].at = place]

\* while self.is_recording
RecordingWorkerWhile(t) ==
    /\ RecordingAt(t, "while")
    /\ IF session.is_recording
       THEN recording_threads' = [recording_threads EXCEPT
                ![t] = [at |-> "get", queue |-> session.recording_queue.queue]]
       ELSE RecordingGoes(t, "clean_up")
    /\ UNCHANGED <<assembler_vars, stream_vars, widget_vars, config, attached_ports, session,
                   recording_queues, signals, recording_feed>>

\* self.recording_queue.get(timeout=1) returns an item: the sentinel ends
\* the loop, a frame packet is written
RecordingWorkerGet(t) ==
    /\ RecordingAt(t, "get")
    /\ recording_queues[recording_threads[t].queue] # <<>>
    /\ LET frame_packet == Head(recording_queues[recording_threads[t].queue])
       IN IF frame_packet = None
          THEN /\ RecordingGoes(t, "clean_up")
               /\ UNCHANGED session
          ELSE /\ RecordingGoes(t, "while")
               /\ session' = [session EXCEPT
                      !.video_writer.frames = Append(@, frame_packet.frame)]
    /\ recording_queues' =
           [recording_queues EXCEPT ![recording_threads[t].queue] = Tail(@)]
    /\ UNCHANGED <<assembler_vars, stream_vars, widget_vars, config, attached_ports, signals,
                   recording_feed>>

\* self.recording_queue.get(timeout=1) raises queue.Empty after a second
\* without an item; "except Queue.Empty" then looks up the attribute Empty of
\* the class queue.Queue, which has none, and the AttributeError ends the
\* thread before its clean-up
RecordingWorkerTimeout(t) ==
    /\ RecordingAt(t, "get")
    /\ recording_queues[recording_threads[t].queue] = <<>>
    /\ RecordingGoes(t, "raised")
    /\ UNCHANGED <<assembler_vars, stream_vars, widget_vars, config, attached_ports, session,
                   recording_queues, signals, recording_feed>>

\* the clean-up: the writer released, is_recording cleared, the signal emitted
RecordingWorkerCleanUp(t) ==
    /\ RecordingAt(t, "clean_up")
    /\ session' = [session EXCEPT
           !.video_writer = IF @ # None /\ @.opened THEN Release(@) ELSE @,
           !.is_recording = FALSE]
    /\ signals' = [signals EXCEPT !.recording_stopped = @ + 1]
    /\ RecordingGoes(t, "finished")
    /\ UNCHANGED <<assembler_vars, stream_vars, widget_vars, config, attached_ports,
                   recording_queues, recording_feed>>

\* one pass of the _play_worker of the stream of a port: with a subscriber
\* and a frame read, the packet becomes the stream's latest_frame_packet
SessionStreamPass(port) ==
    /\ port \in DOMAIN session.streams
    /\ Len(session.streams[port].subscribers) > 0
    /\ ~session.streams[port].stop_event
    /\ session.streams[port].camera.reads < MaxPasses
    /\ session' = [session EXCEPT !.streams[port] = PlayWorkerPass(@)]
    /\ recording_feed' =
           IF /\ session.recording_queue # None
              /\ session.recording_queue \in Range(session.streams[port].subscribers)
           THEN Append(recording_feed,
                       PlayWorkerPass(session.streams[port]).latest_frame_packet)
           ELSE recording_feed
    /\ UNCHANGED <<assembler_vars, stream_vars, widget_vars, config, attached_ports,
                   recording_queues, recording_threads, signals>>

InitSession ==
    /\ AssemblerIdle
    /\ NoStream
    /\ NoWidget
    /\ config \in Configurations
    /\ attached_ports \in Attachments
    /\ session = LiveSession
    /\ recording_queues = <<>>
    /\ recording_threads = <<>>
    /\ signals = [recording_started |-> 0, recording_stopped |-> 0]
    /\ recording_feed = <<>>

NextSession ==
    \/ LoadStreamTools
    \/ DisconnectCameras
    \/ \E port \in SessionPorts : SessionSetActiveStream(port)
    \/ SessionSubscribeAll
    \/ SessionUnsubscribeAll
    \/ \E port \in SessionPorts, fps_argument \in FpsArguments,
          outcome \in WriterOutcomes :
              SessionStartRecording(port, fps_argument, outcome)
    \/ SessionStopRecording
    \/ \E t \in DOMAIN recording_threads : RecordingWorkerWhile(t)
    \/ \E t \in DOMAIN recording_threads : RecordingWorkerGet(t)
    \/ \E t \in DOMAIN recording_threads : RecordingWorkerTimeout(t)
    \/ \E t \in DOMAIN recording_threads : RecordingWorkerCleanUp(t)
    \/ \E port \in SessionPorts : SessionStreamPass(port)

SpecSession == InitSession /\ [][NextSession]_vars

\* the frames of a sequence of frame packets
Frames(frame_packets) == [k \in 1..Len(frame_packets) |-> frame_packets[k].frame]

\* the items of a Queue that are frame packets
QueuedPackets(queue) ==
    LET IsPacket(item) == item # None
    IN SelectSeq(recording_queues[queue.queue], IsPacket)

\* C16: start_recording called while a recording is in progress, or for a
\* port without a stream, returns False and leaves the session as it was
\* (is_recording, video_writer, recording queue and port, the streams with
\* their subscribers and fps targets) and makes no queue and starts no
\* worker, whatever its fps argument and whatever VideoWriter would do; and
\* no step taken while a recording is in progress makes a queue, starts a
\* worker, emits recording_started_signal or replaces the recording queue or
\* port.
C16_RefusedStartChangesNothing ==
    /\ [](\A port \in SessionPorts, fps_argument \in FpsArguments,
             outcome \in WriterOutcomes :
              (session.is_recording \/ port \notin DOMAIN session.streams) =>
                  LET call == StartRecording(session, NextQueue, port,
                                             fps_argument, outcome)
                  IN /\ call.result = FALSE
                     /\ call.self = session
                     /\ ~call.started)
    /\ [][session.is_recording =>
              /\ Len(recording_threads') = Len(recording_threads)
              /\ Len(recording_queues') = Len(recording_queues)
              /\ signals'.recording_started = signals.recording_started
              /\ session'.recording_queue = session.recording_queue
              /\ session'.recording_port = session.recording_port]_vars

\* C16 witness: a recording is in progress on port 0, whose stream has the
\* recording queue subscribed, port 1 has no stream, and start_recording(0)
\* would have started a recording had none been in progress.
C16_Witness ==
    /\ session.is_recording
    /\ session.recording_port = Some(0)
    /\ 0 \in DOMAIN session.streams
    /\ session.recording_queue \in Range(session.streams[0].subscribers)
    /\ 1 \notin DOMAIN session.streams
    /\ StartRecording([session EXCEPT !.is_recording = FALSE], NextQueue, 0,
                      None, "opened").started

\* C17: while a recording is active, the frames the recorded port's stream
\* has published since the recording queue was subscribed are the frames
\* written to the video file followed by the frames waiting in the recording
\* queue, in the order of their capture.
C17_CapturedFramesAreRecorded ==
    session.is_recording =>
        Frames(recording_feed) =
            session.video_writer.frames \o Frames(QueuedPackets(session.recording_queue))

\* C18: a recording worker is never ended by its queue staying empty, and a
\* worker that has ended has run its clean-up: the signal
\* recording_stopped_signal was emitted once for each worker that has ended,
\* and the VideoWriter is not left open by a worker that has ended while no
\* other worker runs.
C18_WorkerWaitsAndCleansUp ==
    LET Ended(t) == recording_threads[t].at \in {"finished", "raised"}
    IN /\ \A t \in DOMAIN recording_threads : recording_threads[t].at # "raised"
       /\ signals.recording_stopped =
              Cardinality({t \in DOMAIN recording_threads : Ended(t)})
       /\ (/\ recording_threads # <<>>
           /\ \A t \in DOMAIN recording_threads : Ended(t)
           /\ session.video_writer # None) => ~session.video_writer.opened

\* C19: set_active_stream(port) that returns True leaves active_port equal
\* to port and the frame emitter of port the only one subscribed;
\* set_active_stream(port) for a port without a stream returns False and
\* leaves the session as it was; and every step that changes active_port
\* leaves no frame emitter but that of the new active port subscribed.
C19_OnlyActiveEmitterSubscribed ==
    /\ [](\A port \in SessionPorts :
              LET call == SetActiveStream(session, port)
              IN /\ call.result =>
                       /\ call.self.active_port = Some(port)
                       /\ port \in DOMAIN call.self.frame_emitters
                       /\ \A other \in DOMAIN call.self.frame_emitters :
                              call.self.frame_emitters[other].subscribed <=> other = port
                 /\ port \notin DOMAIN session.streams =>
                       /\ ~call.result
                       /\ call.self = session)
    /\ [][session'.active_port # session.active_port =>
              \A other \in DOMAIN session'.frame_emitters :
                  session'.frame_emitters[other].subscribed =>
                      session'.active_port = Some(other)]_vars

\* C19 witness: set_active_stream(1) has made port 1 active with two frame
\* emitters at hand: the emitter of port 1 is subscribed and that of port 0,
\* the stream first made active, is not.
C19_Witness ==
    /\ session.active_port = Some(1)
    /\ DOMAIN session.frame_emitters = {0, 1}
    /\ session.frame_emitters[1].subscribed
    /\ ~session.frame_emitters[0].subscribed
    /\ SetActiveStream(session, 1).result

\* C20: once stream_tools_loaded is True, every port in cameras has a
\* LiveStream in streams and a FrameEmitter in frame_emitters.
C20_LoadedToolsForEveryCamera ==
    session.stream_tools_loaded =>
        \A port \in session.cameras :
            /\ port \in DOMAIN session.streams
            /\ port \in DOMAIN session.frame_emitters

\* ------------------------------------------------ the claims on LiveStream
\* C21: whatever subscribe and unsubscribe calls were made, the subscriber
\* list holds each subscriber id at most once; subscribing an id that is
\* subscribed and unsubscribing an id that is not both leave the stream as it
\* is, and the other calls add the id at the end or take it out.
C21_SubscribersOnce ==
    /\ \A j, k \in DOMAIN stream.subscribers :
           stream.subscribers[j] = stream.subscribers[k] => j = k
    /\ \A subscriber_id \in SubscriberIds :
           IF subscriber_id \in Range(stream.subscribers)
           THEN /\ Subscribe(stream, subscriber_id) = stream
                /\ subscriber_id \notin Range(Unsubscribe(stream, subscriber_id).subscribers)
           ELSE /\ Unsubscribe(stream, subscriber_id) = stream
                /\ Subscribe(stream, subscriber_id).subscribers =
                       Append(stream.subscribers, subscriber_id)

\* C21 witness: both ids are subscribed, "recorder" ahead of "display_0",
\* after packets were published: calls were made in both orders and on a
\* list that was not empty.
C21_Witness ==
    /\ stream.subscribers = <<"recorder", "display_0">>
    /\ Len(published) > 0

\* the _play_worker threads that have not ended
RunningWorkers ==
    {w \in DOMAIN play_workers : play_workers[w].at \notin {"done", "raised"}}

\* C22: the camera is disconnected, reconnected and resized only when no
\* worker thread is running and the last one has confirmed its stop (it is
\* past its loop, at "done"); a worker is started only when none is running
\* and stop_event is clear; and never are two workers of the stream running.
C22_ResolutionChangedWhileStopped ==
    /\ [](/\ Cardinality(RunningWorkers) <= 1
          /\ resolution_change.at \in {"connect", "thread_start"} =>
                 /\ RunningWorkers = {}
                 /\ play_workers[Len(play_workers)].at = "done")
    /\ [][/\ (\/ stream'.camera.capture_opened # stream.camera.capture_opened
              \/ stream'.camera.size # stream.camera.size) =>
                 /\ RunningWorkers = {}
                 /\ play_workers[Len(play_workers)].at = "done"
          /\ Len(play_workers') > Len(play_workers) =>
                 /\ RunningWorkers = {}
                 /\ ~stream.stop_event
                 /\ stream.camera.capture_opened
                 /\ stream.camera.size = resolution_change.res]_vars

\* C22 witness: change_resolution((1280, 720)) has returned: the first worker
\* is past its loop, the camera has the new size and the second worker is in
\* its loop.
C22_Witness ==
    /\ Len(play_workers) = 2
    /\ play_workers[1].at = "done"
    /\ play_workers[2].at \in {"spinlock", "read", "process"}
    /\ stream.camera.size = <<1280, 720>>
    /\ resolution_change.at = "idle"

\* C23: a change_resolution call made while the worker is running obtains
\* its stop confirmation: while the call waits in stop_confirm.get() with a
\* worker running, the worker does not end without having put the
\* confirmation (with subscribers or without).
C23_StopIsConfirmed ==
    [][(resolution_change.at = "stop_confirm_get" /\ RunningWorkers # {}) =>
           (RunningWorkers' # {} \/ stream'.stop_confirm # <<>>)]_vars

\* a packet is published only in a pass whose read succeeded and whose
\* subscriber list is not empty when the worker tests it
PublishedOnlyWithSubscribers ==
    published' # published =>
        /\ stream.read_result # None
        /\ stream.read_result.success
        /\ Len(stream.subscribers) > 0
        /\ published' = Append(published, stream'.latest_frame_packet)
        /\ stream'.latest_frame_packet.frame = stream.read_result.frame

\* C28 as stated: a packet is published only in a pass whose read succeeded
\* and whose subscriber list is not empty, and no frame is read from the
\* camera while the stream has no subscribers and is not being stopped.
C28_NoReadWithoutSubscribers ==
    [][/\ PublishedOnlyWithSubscribers
       /\ (Len(stream.subscribers) = 0 /\ ~stream.stop_event) =>
              stream'.camera.reads = stream.camera.reads]_vars

\* C28 amended: a packet is published only in a pass whose read succeeded and
\* whose subscriber list is not empty; a worker whose spinlock test finds no
\* subscriber and no stop request stays in the spinlock, and a frame is read
\* only by a worker that has left the spinlock, after a test that found a
\* subscriber or a stop request.
C28_ReadOnlyPastSpinlock ==
    [][/\ PublishedOnlyWithSubscribers
       /\ \A w \in DOMAIN play_workers :
              /\ (play_workers[w].at = "spinlock" /\ play_workers'[w].at # "spinlock") =>
                     /\ Len(stream.subscribers) > 0 \/ stream.stop_event
                     /\ play_workers'[w].at = "read"
              /\ (play_workers[w].at # "read" /\ play_workers'[w].at = "read") =>
                     play_workers[w].at = "spinlock"
       /\ stream'.camera.reads # stream.camera.reads =>
              \E w \in DOMAIN play_workers :
                  play_workers[w].at = "read" /\ play_workers'[w].at = "process"]_vars

\* C28 witness: the worker has published a packet, the subscribers have left
\* and no stop is requested: the worker waits in the spinlock, every frame
\* read so far having been published.
C28_Witness ==
    /\ Len(published) > 0
    /\ stream.subscribers = <<>>
    /\ ~stream.stop_event
    /\ play_workers[1].at = "spinlock"
    /\ stream.camera.reads = Len(published)

\* ================================================== the progress reports
\* get_stereotriangulated_table_original followed over tables of many
\* bundles: the per-bundle actions of the Table Assembler, on tables of up to
\* MaxBundles sync indices.

\* the largest number of sync indices of a table of the progress runs
MaxBundles == 51

\* a table of n bundles: the sync indices first, first + 2, ..., the later
\* ones first in the file, each seen by ports 0 and 1 at point 0
ProgressTable(n, first) ==
    [k \in 1..(2 * n) |->
        InputRow([sync_index |-> first + 2 * (n - ((k + 1) \div 2)),
                  port |-> (k + 1) % 2,
                  point_id |-> 0])]

ProgressTables == {ProgressTable(n, first) : n \in 0..MaxBundles, first \in {1, 25}}

InitProgress ==
    /\ point_data_csv \in ProgressTables
    /\ camera_array = PairSet
    /\ stereotriangulated_csv = None
    /\ returned = [mode \in Modes |-> None]
    /\ pc = "idle"
    /\ point_data = <<>>
    /\ sync_indices = <<>>
    /\ i = 0
    /\ sync_packet = None
    /\ synched_stereo_points = None
    /\ stereotriangulated_table = None
    /\ point_id_multiplier = 0
    /\ calls = <<>>
    /\ progress = <<>>
    /\ NothingLive

NextProgress ==
    \/ OriginalStart
    \/ OriginalBundle
    \/ OriginalSave

SpecProgress == InitProgress /\ [][NextProgress]_vars

\* C27: in per-bundle mode the messages logged after i passes are those of
\* the positions 0, 25, 50, ... below i in the ascending distinct sync
\* indices, each naming its position and the total; a finished run over n
\* bundles has logged ceil(n / 25) messages, the first for position 0 when
\* there is a bundle; and its output has the rows of every bundle, reporting
\* or not, in ascending order of sync index.
C27_ProgressEvery25 ==
    LET bundles == SortSet(Range(Column(point_data_csv, "sync_index")))
    IN /\ pc = "original_loop" =>
              /\ sync_indices = bundles
              /\ Len(progress) = (i + 24) \div 25
              /\ \A k \in DOMAIN progress :
                     progress[k] = [i |-> 25 * (k - 1),
                                    total_sync_indices |-> Len(bundles)]
       /\ (pc = "idle" /\ returned["original"] # None) =>
              /\ Len(progress) = (Len(bundles) + 24) \div 25
              /\ Len(bundles) > 0 => progress[1].i = 0
              /\ Column(returned["original"].rows, "sync_index") = bundles
              /\ stereotriangulated_csv = returned["original"]

\* C27 witness: a run over 51 bundles whose sync indices start at 25 has
\* finished with three messages, for the positions 0, 25 and 50.
C27_Witness ==
    /\ pc = "idle"
    /\ returned["original"] # None
    /\ Len(returned["original"].rows) = 51
    /\ returned["original"].rows[1].sync_index = 25
    /\ Len(progress) = 3
    /\ progress[3].i = 50

\* ============================================================ RecordingThread
\* gui/camera_management/record_single_camera.py: a RecordingThread of the
\* RecordSingleCameraWidget, followed step by step against the _play_worker of
\* the LiveStream it records.  Event.wait() returns at once when the flag is
\* set and otherwise blocks until set() notifies it.

\* RecordingThread(stream, video_writer, port, parent), started
RecordingQThread(port, video_writer) ==
    [port |-> port, video_writer |-> video_writer, is_running |-> TRUE,
     at |-> "while", written |-> <<>>]

\* the writes followed per recording
MaxWritten == 3

RecorderAt(t, place) == t \in DOMAIN recorders /\ recorders[t].at = place

\* while self._is_running
RecorderWhile(t) ==
    /\ RecorderAt(t, "while")
    /\ recorders' = [recorders EXCEPT
           ![t].at = IF recorders[t].is_running THEN "wait" ELSE "finally"]
    /\ UNCHANGED <<assembler_vars, stream_vars, session_vars, widget, event_queue>>

\* self.stream.frame_updated.wait(), entered: the flag is set or the thread
\* blocks
RecorderWait(t) ==
    /\ RecorderAt(t, "wait")
    /\ Len(recorders[t].written) < MaxWritten
    /\ recorders' = [recorders EXCEPT
           ![t].at = IF stream.frame_updated THEN "read" ELSE "waiting"]
    /\ UNCHANGED <<assembler_vars, stream_vars, session_vars, widget, event_queue>>

\* frame_packet = self.stream.latest_frame_packet; None ends the loop,
\* otherwise self.video_writer.write(frame_packet.frame)
RecorderWrite(t) ==
    /\ RecorderAt(t, "read")
    /\ LET frame_packet == stream.latest_frame_packet
       IN recorders' = [recorders EXCEPT
              ![t] = IF frame_packet = None THEN [@ EXCEPT !.at = "finally"]
                     ELSE [@ EXCEPT
                              !.at = "while",
                              !.written = Append(@, frame_packet),
                              !.video_writer.frames =
                                  IF recorders[t].video_writer.opened
                                  THEN Append(@, frame_packet.frame) ELSE @]]
    /\ UNCHANGED <<assembler_vars, stream_vars, session_vars, widget, event_queue>>

\* finally: the VideoWriter released if open, finished_saving emitted
RecorderFinally(t) ==
    /\ RecorderAt(t, "finally")
    /\ recorders' = [recorders EXCEPT
           ![t].at = "finished",
           ![t].video_writer = IF @.opened THEN Release(@) ELSE @]
    /\ event_queue' = Append(event_queue, [signal |-> "finished_saving", thread |-> t])
    /\ UNCHANGED <<assembler_vars, stream_vars, session_vars, widget>>

\* RecordingThread.stop
RecorderStop(t) ==
    /\ t \in DOMAIN recorders
    /\ recorders[t].is_running
    /\ recorders' = [recorders EXCEPT ![t].is_running = FALSE]
    /\ UNCHANGED <<assembler_vars, stream_vars, session_vars, widget, event_queue>>

\* a recording has been started on the stream of port 0: the recording id is
\* subscribed next to the live view and the thread is started
InitRecorder ==
    /\ AssemblerIdle
    /\ NoSession
    /\ stream = Subscribe(Subscribe(LiveStream(Camera(0), 30), "display_0"),
                          "RecordingThread")
    /\ play_workers = <<PlayWorker>>
    /\ resolution_change = [at |-> "idle", res |-> <<640, 480>>, count |-> 0]
    /\ published = <<>>
    /\ observed = {}
    /\ widget = None
    /\ recorders = <<RecordingQThread(0, VideoWriter(TRUE))>>
    /\ event_queue = <<>>

NextRecorder ==
    \/ \E w \in DOMAIN play_workers : PlayWorkerStart(w)
    \/ \E w \in DOMAIN play_workers : PlayWorkerWhile(w)
    \/ \E w \in DOMAIN play_workers : PlayWorkerSpinlock(w)
    \/ \E w \in DOMAIN play_workers : PlayWorkerRead(w)
    \/ \E w \in DOMAIN play_workers : PlayWorkerProcess(w)
    \/ \E w \in DOMAIN play_workers : PlayWorkerSet(w)
    \/ \E w \in DOMAIN play_workers : PlayWorkerClear(w)
    \/ \E w \in DOMAIN play_workers : PlayWorkerNext(w)
    \/ \E w \in DOMAIN play_workers : PlayWorkerLog(w)
    \/ \E t \in DOMAIN recorders : RecorderWhile(t)
    \/ \E t \in DOMAIN recorders : RecorderWait(t)
    \/ \E t \in DOMAIN recorders : RecorderWrite(t)
    \/ \E t \in DOMAIN recorders : RecorderFinally(t)
    \/ \E t \in DOMAIN recorders : RecorderStop(t)
    \/ StreamUnsubscribe("RecordingThread")

SpecRecorder == InitRecorder /\ [][NextRecorder]_vars

\* C29: a RecordingThread writes a frame only after frame_updated has let it
\* through its wait, and it writes no frame_index twice, however its steps
\* fall between those of the stream's worker.
C29_EachPacketWrittenOnce ==
    /\ [](\A t \in DOMAIN recorders :
              \A j, k \in DOMAIN recorders[t].written :
                  recorders[t].written[j].frame_index =
                      recorders[t].written[k].frame_index => j = k)
    /\ [][\A t \in DOMAIN recorders :
              recorders'[t].written # recorders[t].written =>
                  /\ recorders[t].at = "read"
                  /\ recorders'[t].written =
                         Append(recorders[t].written, stream.latest_frame_packet)]_vars

\* ==================================================== RecordSingleCameraWidget
\* gui/camera_management/record_single_camera.py: the widget on a session
\* with two cameras.  Its handlers run one at a time on the GUI thread; a
\* world is the widget with the session and the recording threads its
\* handlers reach.  The spin boxes are read when a handler reads them: their
\* values are inputs of the handler.

\* the largest countdown and record length entered, in seconds
MaxSeconds == 2
\* the events the GUI thread is followed through
MaxHandled == 4

\* _RECORD_FPS
RecordFps == 30

\* QTimer(self): whether it runs and the timeouts since start()
QTimer == [active |-> FALSE, timeouts |-> 0]
\* timer.start(1000)
TimerStart(timer) == [active |-> TRUE, timeouts |-> 0]
\* timer.stop()
TimerStop(timer) == QTimer

\* RecordSingleCameraWidget.__init__ before populate_camera_ports;
\* video_writer and recording_thread name the thread that holds the objects,
\* countdown_from keeps the countdown_s of line 497, handled counts the
\* events the GUI thread has handled
RecordSingleCameraWidget ==
    [selected_port |-> None,
     active_stream |-> None,
     frame_emitter |-> None,
     video_writer |-> None,
     recording_thread |-> None,
     current_action |-> "SELECT_CAMERA",
     countdown_timer |-> QTimer,
     current_countdown_value |-> 0,
     countdown_from |-> 0,
     recording_duration_timer |-> QTimer,
     current_record_duration_s |-> 0,
     target_record_length_s |-> 0,
     visible |-> TRUE,
     handled |-> 0]

\* a cv2.VideoWriter that did not open: no thread holds it
UnopenedWriter == Some(0)

World == [widget |-> widget, session |-> session, recorders |-> recorders]

\* thread.isRunning()
IsRunning(self, thread) ==
    /\ thread # None
    /\ thread.value \in DOMAIN self.recorders
    /\ self.recorders[thread.value].at # "finished"

\* video_writer.isOpened()
IsOpened(self, video_writer) ==
    /\ video_writer # None
    /\ video_writer.value \in DOMAIN self.recorders
    /\ self.recorders[video_writer.value].video_writer.opened

\* self.active_stream.unsubscribe(self.recording_subscriber_id), if there
\* is an active stream
UnsubscribeRecording(self) ==
    IF self.widget.active_stream = None THEN self
    ELSE [self EXCEPT !.session.streams[self.widget.active_stream.value] =
             Unsubscribe(@, "RecordingThread")]

\* the thread stopped if it runs, otherwise the open writer released
StopThreadOrRelease(self) ==
    IF IsRunning(self, self.widget.recording_thread)
    THEN [self EXCEPT !.recorders[self.widget.recording_thread.value].is_running = FALSE]
    ELSE IF IsOpened(self, self.widget.video_writer)
    THEN [self EXCEPT !.recorders[self.widget.video_writer.value].video_writer = Release(@)]
    ELSE self

\* on_recording_complete
OnRecordingComplete(self) == [self EXCEPT !.widget.current_action = "START_RECORDING"]

\* on_recording_error
OnRecordingError(self) ==
    LET stopped == StopThreadOrRelease(
                       [self EXCEPT
                           !.widget.recording_duration_timer = TimerStop(@),
                           !.widget.countdown_timer = TimerStop(@)])
    IN [UnsubscribeRecording(
            [stopped EXCEPT !.widget.recording_thread = None,
                            !.widget.video_writer = None])
        EXCEPT !.widget.current_action = "START_RECORDING"]

\* on_recording_thread_finished
OnRecordingThreadFinished(self) ==
    OnRecordingComplete([self EXCEPT !.widget.recording_thread = None])

\* on_port_selected for the index of a port of the session
OnPortSelected(self, port) ==
    LET cleared == [self EXCEPT !.widget.frame_emitter = None,
                                !.widget.selected_port = Some(port)]
    IN IF port \notin DOMAIN self.session.streams
       THEN [cleared EXCEPT !.widget.active_stream = None,
                            !.widget.current_action = "SELECT_CAMERA"]
       ELSE [cleared EXCEPT
                !.widget.active_stream = Some(port),
                !.widget.frame_emitter = Some(port),
                !.session.streams[port] = SetFpsTarget(@, RecordFps),
                !.widget.current_action = "START_RECORDING"]

\* _start_actual_recording, where cv2.VideoWriter(...) does what outcome says
StartActualRecording(self, record_length, outcome) ==
    IF self.widget.active_stream = None \/ self.widget.selected_port = None
    THEN [self EXCEPT !.widget.current_action = "START_RECORDING"]
    ELSE LET port == self.widget.active_stream.value
             recording == [self EXCEPT !.widget.current_action = "STOP_RECORDING"]
             targeted == [recording EXCEPT
                             !.session.streams[port] = SetFpsTarget(@, RecordFps)]
             thread == Len(self.recorders) + 1
         IN IF self.widget.selected_port.value \notin self.session.cameras
            THEN OnRecordingError(recording)
            ELSE IF outcome = "raises" THEN OnRecordingError(targeted)
            ELSE IF outcome = "not_opened"
            THEN OnRecordingError([targeted EXCEPT !.widget.video_writer = UnopenedWriter])
            ELSE [targeted EXCEPT
                     !.session.streams[port] = Subscribe(@, "RecordingThread"),
                     !.recorders = Append(@, RecordingQThread(port, VideoWriter(TRUE))),
                     !.widget.video_writer = Some(thread),
                     !.widget.recording_thread = Some(thread),
                     !.widget.current_record_duration_s = 0,
                     !.widget.target_record_length_s = record_length,
                     !.widget.recording_duration_timer = TimerStart(@)]

\* _stop_actual_recording
StopActualRecording(self) ==
    LET saving == [self EXCEPT
                      !.widget.recording_duration_timer = TimerStop(@),
                      !.widget.current_action = "SAVING"]
    IN UnsubscribeRecording(
           IF IsRunning(saving, saving.widget.recording_thread)
           THEN StopThreadOrRelease(saving)
           ELSE OnRecordingComplete(StopThreadOrRelease(saving)))

\* toggle_start_stop in COUNTDOWN that leaves the countdown timer running
ToggleStartStopKeepsTimer(self, countdown_s, record_length, outcome) ==
    IF self.widget.current_action = "START_RECORDING"
    THEN IF countdown_s > 0
         THEN [self EXCEPT
                  !.widget.current_countdown_value = countdown_s,
                  !.widget.countdown_from = countdown_s,
                  !.widget.current_action = "COUNTDOWN",
                  !.widget.countdown_timer = TimerStart(@)]
         ELSE StartActualRecording(self, record_length, outcome)
    ELSE IF self.widget.current_action = "COUNTDOWN"
    THEN [self EXCEPT !.widget.current_action = "START_RECORDING"]
    ELSE IF self.widget.current_action = "STOP_RECORDING"
    THEN StopActualRecording(self)
    ELSE self

\* toggle_start_stop
ToggleStartStop(self, countdown_s, record_length, outcome) ==
    IF self.widget.current_action = "START_RECORDING"
    THEN IF countdown_s > 0
         THEN [self EXCEPT
                  !.widget.current_countdown_value = countdown_s,
                  !.widget.countdown_from = countdown_s,
                  !.widget.current_action = "COUNTDOWN",
                  !.widget.countdown_timer = TimerStart(@)]
         ELSE StartActualRecording(self, record_length, outcome)
    ELSE IF self.widget.current_action = "COUNTDOWN"
    THEN [self EXCEPT
             !.widget.countdown_timer = TimerStop(@),
             !.widget.current_action = "START_RECORDING"]
    ELSE IF self.widget.current_action = "STOP_RECORDING"
    THEN StopActualRecording(self)
    ELSE self

\* update_countdown_display that starts the recording one tick late
UpdateCountdownDisplayLate(self, record_length, outcome) ==
    LET counted == [self EXCEPT !.widget.current_countdown_value = @ - 1]
    IN IF counted.widget.current_countdown_value >= 0
       THEN counted
       ELSE StartActualRecording(
                [counted EXCEPT !.widget.countdown_timer = TimerStop(@)],
                record_length, outcome)

\* update_countdown_display
UpdateCountdownDisplay(self, record_length, outcome) ==
    LET counted == [self EXCEPT !.widget.current_countdown_value = @ - 1]
    IN IF counted.widget.current_countdown_value > 0
       THEN counted
       ELSE StartActualRecording(
                [counted EXCEPT !.widget.countdown_timer = TimerStop(@)],
                record_length, outcome)

\* update_recording_duration
UpdateRecordingDuration(self, countdown_s, record_length, outcome) ==
    LET counted == [self EXCEPT !.widget.current_record_duration_s = @ + 1]
    IN IF /\ counted.widget.target_record_length_s > 0
          /\ counted.widget.target_record_length_s
                 - counted.widget.current_record_duration_s <= 0
       THEN ToggleStartStop(counted, countdown_s, record_length, outcome)
       ELSE counted

\* closeEvent
CloseEvent(self) ==
    LET hidden == [self EXCEPT !.widget.visible = FALSE]
    IN IF IsRunning(hidden, hidden.widget.recording_thread)
       THEN StopActualRecording(hidden)
       ELSE IF IsOpened(hidden, hidden.widget.video_writer)
       THEN [hidden EXCEPT
                !.recorders[hidden.widget.video_writer.value].video_writer = Release(@)]
       ELSE hidden

\* ------------------------------------------------------------ the handlers
\* the world a handler leaves
Becomes(world) ==
    /\ widget.handled < MaxHandled
    /\ widget' = [world.widget EXCEPT !.handled = @ + 1]
    /\ session' = world.session
    /\ recorders' = world.recorders
    /\ UNCHANGED <<assembler_vars, stream_vars, config, attached_ports,
                   recording_queues, recording_threads, signals, recording_feed>>

\* the start/stop button clicked, which update_button_state enables outside
\* SAVING and SELECT_CAMERA
WidgetToggleStartStop(countdown_s, record_length, outcome) ==
    /\ widget.visible
    /\ widget.current_action \notin {"SAVING", "SELECT_CAMERA"}
    /\ Becomes(ToggleStartStop(World, countdown_s, record_length, outcome))
    /\ UNCHANGED event_queue

\* a timeout of the countdown timer
WidgetUpdateCountdownDisplay(record_length, outcome) ==
    /\ widget.countdown_timer.active
    /\ Becomes(UpdateCountdownDisplay(
                   [World EXCEPT !.widget.countdown_timer.timeouts = @ + 1],
                   record_length, outcome))
    /\ UNCHANGED event_queue

\* a timeout of the recording duration timer
WidgetUpdateRecordingDuration(countdown_s, record_length, outcome) ==
    /\ widget.recording_duration_timer.active
    /\ Becomes(UpdateRecordingDuration(
                   [World EXCEPT !.widget.recording_duration_timer.timeouts = @ + 1],
                   countdown_s, record_length, outcome))
    /\ UNCHANGED event_queue

\* another port chosen in the port selector (currentIndexChanged)
WidgetOnPortSelected(port) ==
    /\ widget.visible
    /\ widget.selected_port # Some(port)
    /\ Becomes(OnPortSelected(World, port))
    /\ UNCHANGED event_queue

\* finished_saving of a recording thread delivered
WidgetOnRecordingThreadFinished ==
    /\ event_queue # <<>>
    /\ Head(event_queue).signal = "finished_saving"
    /\ Becomes(OnRecordingThreadFinished(World))
    /\ event_queue' = Tail(event_queue)

\* the widget closed
WidgetCloseEvent ==
    /\ widget.visible
    /\ Becomes(CloseEvent(World))
    /\ UNCHANGED event_queue

\* the stream a recording thread waits on publishes a packet: the thread is
\* woken and writes it
RecorderPass(t) ==
    /\ RecorderAt(t, "wait")
    /\ LET port == recorders[t].port
           passed == PlayWorkerPass(session.streams[port])
       IN /\ Len(session.streams[port].subscribers) > 0
          /\ session.streams[port].camera.reads < MaxPasses
          /\ session' = [session EXCEPT !.streams[port] = passed]
          /\ recorders' = [recorders EXCEPT
                 ![t].at = "while",
                 ![t].written = Append(@, passed.latest_frame_packet),
                 ![t].video_writer.frames =
                     IF recorders[t].video_writer.opened
                     THEN Append(@, passed.latest_frame_packet.frame) ELSE @]
    /\ UNCHANGED <<assembler_vars, stream_vars, widget, event_queue, config,
                   attached_ports, recording_queues, recording_threads, signals,
                   recording_feed>>

\* the session the widget is made over: two cameras found, their streams
\* with the subscribers other consumers have made
WidgetSession(subscribers) ==
    LET found == AddCams(LiveSession, <<0, 1>>)
    IN [found EXCEPT !.streams =
           [port \in DOMAIN found.streams |->
               [found.streams[port] EXCEPT !.subscribers = subscribers]]]

\* the widget made over the session: populate_camera_ports has selected the
\* first port
InitWidget ==
    /\ AssemblerIdle
    /\ NoStream
    /\ config = {}
    /\ attached_ports = SessionPorts
    /\ recording_queues = <<>>
    /\ recording_threads = <<>>
    /\ signals = [recording_started |-> 0, recording_stopped |-> 0]
    /\ recording_feed = <<>>
    /\ \E subscribers \in {<<>>, <<"display_0">>} :
          LET made == OnPortSelected(
                          [widget |-> RecordSingleCameraWidget,
                           session |-> WidgetSession(subscribers),
                           recorders |-> <<>>], 0)
          IN /\ widget = made.widget
             /\ session = made.session
             /\ recorders = made.recorders
    /\ event_queue = <<>>

\* the countdown spin box is read in START_RECORDING only
CountdownValues == IF widget.current_action = "START_RECORDING" THEN 0..MaxSeconds ELSE {0}

NextWidget ==
    \/ \E countdown_s \in CountdownValues, record_length \in 0..MaxSeconds,
          outcome \in WriterOutcomes :
              WidgetToggleStartStop(countdown_s, record_length, outcome)
    \/ \E record_length \in 0..MaxSeconds, outcome \in WriterOutcomes :
              WidgetUpdateCountdownDisplay(record_length, outcome)
    \/ \E countdown_s \in CountdownValues, record_length \in 0..MaxSeconds,
          outcome \in WriterOutcomes :
              WidgetUpdateRecordingDuration(countdown_s, record_length, outcome)
    \/ \E port \in SessionPorts : WidgetOnPortSelected(port)
    \/ WidgetOnRecordingThreadFinished
    \/ WidgetCloseEvent
    \/ \E t \in DOMAIN recorders : RecorderWhile(t)
    \/ \E t \in DOMAIN recorders : RecorderPass(t)
    \/ \E t \in DOMAIN recorders : RecorderFinally(t)

SpecWidget == InitWidget /\ [][NextWidget]_vars

\* a recording thread was started by the step
RecordingStarted ==
    /\ Len(recorders') = Len(recorders) + 1
    /\ widget'.current_action = "STOP_RECORDING"
    /\ widget'.recording_thread = Some(Len(recorders'))

\* C24: a press in START_RECORDING with a countdown of n > 0 enters COUNTDOWN
\* with the countdown timer started and starts nothing; a running countdown
\* has counted n down by its timeouts; the timeout that is the n-th, and no
\* earlier one, stops the timer and starts the recording (the thread exists
\* when the writer opens); a press with a countdown of 0 starts the recording
\* in the same handler and does not enter COUNTDOWN.
C24_CountdownThenStart ==
    /\ [](widget.countdown_timer.active =>
              /\ widget.current_countdown_value >= 1
              /\ widget.current_countdown_value + widget.countdown_timer.timeouts
                     = widget.countdown_from)
    /\ [][\A record_length \in 0..MaxSeconds, outcome \in WriterOutcomes :
              /\ \A countdown_s \in 0..MaxSeconds :
                     (/\ widget.current_action = "START_RECORDING"
                      /\ WidgetToggleStartStop(countdown_s, record_length, outcome))
                         => IF countdown_s > 0
                            THEN /\ widget'.current_action = "COUNTDOWN"
                                 /\ widget'.countdown_timer = TimerStart(QTimer)
                                 /\ widget'.countdown_from = countdown_s
                                 /\ recorders' = recorders
                            ELSE /\ widget'.current_action # "COUNTDOWN"
                                 /\ outcome = "opened" => RecordingStarted
              /\ WidgetUpdateCountdownDisplay(record_length, outcome)
                     => IF widget.countdown_timer.timeouts + 1 < widget.countdown_from
                        THEN /\ widget'.countdown_timer.active
                             /\ recorders' = recorders
                             /\ widget'.current_action = widget.current_action
                        ELSE /\ widget.countdown_timer.timeouts + 1 = widget.countdown_from
                             /\ ~widget'.countdown_timer.active
                             /\ outcome = "opened" => RecordingStarted]_vars

\* a recording runs that the second timeout of a countdown of 2 has started
C24_Witness ==
    /\ widget.current_action = "STOP_RECORDING"
    /\ widget.countdown_from = 2
    /\ widget.current_countdown_value = 0
    /\ ~widget.countdown_timer.active
    /\ IsRunning(World, widget.recording_thread)
    /\ widget.handled = 3

\* C25: a press in COUNTDOWN stops the countdown timer and returns to
\* START_RECORDING without making a thread or a writer and without touching
\* the subscriptions, and a stopped countdown timer runs again only when a
\* new countdown is entered from START_RECORDING.
C25_CancelStartsNothing ==
    [][/\ \A countdown_s \in 0..MaxSeconds, record_length \in 0..MaxSeconds,
             outcome \in WriterOutcomes :
              (/\ widget.current_action = "COUNTDOWN"
               /\ WidgetToggleStartStop(countdown_s, record_length, outcome))
                  => /\ ~widget'.countdown_timer.active
                     /\ widget'.current_action = "START_RECORDING"
                     /\ recorders' = recorders
                     /\ widget'.video_writer = widget.video_writer
                     /\ widget'.recording_thread = widget.recording_thread
                     /\ session' = session
       /\ (~widget.countdown_timer.active /\ widget'.countdown_timer.active)
              => /\ widget.current_action = "START_RECORDING"
                 /\ widget'.current_action = "COUNTDOWN"]_vars

\* a countdown of 2 was cancelled after its first timeout and nothing has
\* been recorded
C25_Witness ==
    /\ widget.current_action = "START_RECORDING"
    /\ ~widget.countdown_timer.active
    /\ widget.countdown_from = 2
    /\ widget.current_countdown_value = 1
    /\ recorders = <<>>
    /\ widget.video_writer = None
    /\ widget.handled = 3

\* C26: the timeout of the recording duration timer that is the L-th of a
\* recording started with record length L > 0 stops the recording (the
\* duration timer stopped, the widget out of STOP_RECORDING, the running
\* thread told to stop), and a timeout of a recording with record length 0
\* stops nothing.
C26_StoppedAtRecordLength ==
    [][\A countdown_s \in 0..MaxSeconds, record_length \in 0..MaxSeconds,
          outcome \in WriterOutcomes :
           WidgetUpdateRecordingDuration(countdown_s, record_length, outcome)
               => /\ (/\ widget.target_record_length_s > 0
                      /\ widget.recording_duration_timer.timeouts + 1
                             = widget.target_record_length_s)
                         => /\ ~widget'.recording_duration_timer.active
                            /\ widget'.current_action # "STOP_RECORDING"
                            /\ \A t \in DOMAIN recorders :
                                   recorders[t].at # "finished" => ~recorders'[t].is_running
                  /\ widget.target_record_length_s = 0
                         => /\ widget'.recording_duration_timer.active
                            /\ recorders' = recorders
                            /\ widget'.current_action = widget.current_action]_vars

====
